---- MODULE Spec2Model ----
(***************************************************************************)
(* Session execution engine of the deep-research backend: the session      *)
(* store and its event log, the orchestrator run, the sub-agent loop, the  *)
(* sub-agent tool budgets, the SSE fan-out and the path handling of the    *)
(* file tools.                                                             *)
(***************************************************************************)
EXTENDS Integers, Sequences, FiniteSets, TLC

VARIABLES
    \* ---- session store (StateManager) ----
    sessionStatus,          \* session.status
    events,                 \* session.events, the append-only log
    storeStatus,            \* session.agents[a].status ("none" = not in the map)
    \* ---- orchestrator (StreamingOrchestrator) ----
    orchPc,                 \* position of generateReport
    hasExecutedSteps,       \* generateReport local
    orchestratorStepNumber, \* generateReport local
    orchAborted,            \* orchestrator abortController.signal.aborted
    orchestrators,          \* server map `orchestrators` holds the session
    agents,                 \* ctx.agents (keys)
    runningAgents,          \* ctx.runningAgents
    completedAgents,        \* ctx.completedAgents
    failedAgents,           \* ctx.failedAgents
    agentCounter,           \* orchestrator agentCounter
    spawnBudget,            \* spawn_agent calls the model may still issue
    spawnRejected,          \* spawn_agent calls answered AGENT_LIMIT_REACHED
    \* ---- sub-agents (StreamingSubAgent) ----
    agentPc,                \* position of spawn_agent / executeTask per agent
    status,                 \* this.status
    retryCount,             \* this.retryCount
    aborted,                \* agent abortController.signal.aborted
    resultsFile,            \* content of results.md
    statusFile,             \* status written to status.json
    fileWrites,             \* results.md writes done by the agent's LLM run
    \* ---- SSE endpoint (GET /api/stream/:sessionId) ----
    listeners,              \* connections whose eventListener is registered
    received,               \* frames written to each connection's response
    connState,              \* "idle" | "open" | "closed" per connection
    attachedAt,             \* length of the log when the connection attached
    activeConnections,      \* server map `activeConnections` for the session
    graceTimers,            \* disconnect timers scheduled and not yet fired
    backoff,                \* per agent: calls of runAgent and failed LLM
                            \* runs so far, class of the last error,
                            \* `delay` of the pending wait
    \* ---- plan tools (generate_plan, update_plan) ----
    planFile,               \* parsed content of the session's plan.json
    planSteps,              \* ctx.planSteps, the orchestrator's Map, in
                            \* insertion order
    stepCounter,            \* this.stepCounter
    plan,                   \* the plan tool call in progress and its result
    \* ---- ToolCall records of the session store ----
    toolCalls,              \* session.agents[o].toolCalls per owner
    toolCallsAddedByChunk,  \* ids the orchestrator recorded in onChunk
    stepCalls,              \* tool calls of the orchestrator's current step
    executing,              \* per sub-agent: ids of tool executions in flight
    reportResponse,         \* body of the last GET /api/report/:sessionId
    keys,                   \* process.env's API keys, the provider clients
                            \* built from them, and the keys of the
                            \* provider calls made
    graceSeen,              \* per pending timer, oldest first: a connection
                            \* has been open since the timer was scheduled
    clients,                \* connections the clients of this run may open
    \* ---- sub-agent tool budget (StreamingSubAgent tool tracking) ----
    toolInUse,              \* the tool the sub-agent's LLM calls in this run
    stepPhase,              \* "idle" | "dispatch" | "collect": the LLM step's tool calls
    toolCallCounts,         \* this.toolCallCounts
    consecutiveToolFailures,\* this.consecutiveToolFailures
    inFlight,               \* calls past the limit check, not yet recorded
    executed,               \* calls that went on to the provider / the file system
    succeeded,              \* calls that returned success
    lastResult,             \* error code of the last returned tool result
    recent,                 \* success of the tool's latest returned calls, oldest first
    \* ---- file-system accesses of the tools ----
    contextFiles,           \* context_files the spawn_agent call passes
    accessed,               \* resolved paths the tools have read or written
    lastTool,               \* <<tool, outcome>> of the last path-taking call
    \* ---- wait_for_agents ----
    wait,                   \* the wait_for_agents call: position and locals
    \* ---- search rate gate (ExaRateLimiter) ----
    timeSinceLastRequest,   \* Date.now() - this.lastRequestTime in ms, up to minDelayMs
    queue,                  \* this.queue (item ids)
    isProcessing,           \* this.isProcessing
    gatePc,                 \* position of processQueue
    current,                \* the item processQueue has shifted
    timer,                  \* ms until the pending setTimeout is due
    enqueued,               \* items handed to enqueue
    itemRetryCount,         \* item.retryCount
    dispatches,             \* calls of item.searchFn
    resolves,               \* calls of item.resolve
    rejects,                \* calls of item.reject
    \* ---- write_report ----
    report                  \* the write_report call, its result and
                            \* final_report.md; `listed` is agent_results,
                            \* `passed` what the writer's prompt holds for
                            \* each listed agent, `completed` the listed
                            \* agents that had completed when it was built

lifeVars == <<sessionStatus, events, storeStatus, orchPc, hasExecutedSteps,
              orchestratorStepNumber, orchAborted, orchestrators, agents,
              runningAgents, completedAgents, failedAgents, agentCounter,
              spawnBudget, spawnRejected, agentPc, status, retryCount,
              aborted, resultsFile, statusFile, fileWrites>>

streamVars == <<listeners, connState, attachedAt, activeConnections,
                graceTimers, graceSeen, clients>>

toolVars == <<toolInUse, stepPhase, toolCallCounts, consecutiveToolFailures,
              inFlight, executed, succeeded, lastResult, recent>>
pathVars == <<contextFiles, accessed, lastTool>>

waitVars == <<wait>>

gateVars == <<timeSinceLastRequest, queue, isProcessing, gatePc, current,
              timer, enqueued, itemRetryCount, dispatches, resolves, rejects>>

reportVars == <<report>>

planVars == <<planFile, planSteps, stepCounter, plan>>

recordVars == <<toolCalls, toolCallsAddedByChunk, stepCalls, executing>>

fetchVars == <<reportResponse>>

\* variables of the plan-tool, ToolCall-record and report-fetch scenarios
keyVars == <<keys>>

restVars == <<planVars, recordVars, fetchVars, keyVars>>

\* executeTask's backoff after a failed LLM run
extVars == <<backoff, restVars>>

\* variables of the orchestrator-tool and rate-gate scenarios
auxVars == <<waitVars, gateVars, reportVars, extVars>>

\* variables of the other scenarios, untouched by the session's actions
nonLife == <<toolVars, pathVars, auxVars>>

vars == <<lifeVars, received, streamVars, nonLife>>

----------------------------------------------------------------------------
(* Bounds *)

MaxSpawn == 1        \* spawn_agent calls issued in a session run
SpawnExtra == 2      \* spawn_agent calls beyond the cap in the spawn scenario
MaxOrchSteps == 1    \* orchestrator steps that finish with tool calls
MaxWrites == 1       \* results.md writes per sub-agent
MaxSubs == 2         \* SSE connections opened in the fan-out scenario
MaxConcurrent == 2   \* calls of one tool a sub-agent's LLM step runs at once
MaxNamed == 2        \* agents a session with a wait_for_agents call spawns
MaxPolls == 1        \* polling rounds wait_for_agents repeats before its timeout
MaxItems == 2        \* searches handed to the rate gate
MaxReports == 1      \* write_report calls of a session run
MaxOverrun == 1      \* calls beyond a tool's budget that are followed
MaxPlanCalls == 2    \* plan tool calls (generate_plan, update_plan) of a run
MaxPlanLen == 1      \* steps supplied to one update_plan call
MaxIds == 2          \* tool call ids the provider chooses from
MaxCalls == 2        \* tool calls recorded per owner
MaxRecordSteps == 2  \* orchestrator steps in the ToolCall-record scenario
MaxSessions == 2     \* sessions created on the server
MaxKeyCalls == 3     \* provider calls followed in the API-key scenario
MaxOverlap == 1      \* sub-agents at work when the next spawn_agent is issued

(* Program constants *)

MAX_AGENTS == 10
minDelayMs == 350
defaultMaxRetries == 3
MAX_ATTEMPTS == 3
MIN_CONTENT_LENGTH == 100

AgentIds == 1..(MAX_AGENTS + SpawnExtra + 1)

\* the owners of ToolCall records: the agent 'orchestrator' and the sub-agents
OrchestratorId == 0
Owners == {OrchestratorId} \cup AgentIds
\* session.agents.get(o).status: createSession stores the agent
\* 'orchestrator' with the status 'running', and no call of
\* updateAgentStatus names it; the sub-agents' statuses are storeStatus
StoreAgentStatus(o) ==
    IF o = OrchestratorId THEN "running" ELSE storeStatus[o]

Subs == 1..MaxSubs

Terminal == {"completed", "failed"}

ToolNames == {"web_search", "file", "code_interpreter", "view_image"}

----------------------------------------------------------------------------
(* Events *)

Event(t, a, s) == [type |-> t, agentId |-> a, status |-> s]

SessionStatusChange(s) == Event("session_status_change", 0, s)
OrchestratorError == Event("error", 0, "orchestrator")
AgentSpawned(a) == Event("agent_spawned", a, "pending")
AgentStatusChange(a, s) == Event("agent_status_change", a, s)
AgentFailed(a) == Event("agent_failed", a, "failed")
OrchestratorStep == Event("orchestrator_step", 0, "-")
PlanUpdate(steps) ==
    [type |-> "plan_update", agentId |-> 0, status |-> "-", steps |-> steps]
ToolCallEvent(a) == Event("tool_call", a, "executing")
ToolResultEvent(a, s) == Event("tool_result", a, s)

\* the SSE frame of an event: `event: <type>` and `data: <JSON of event.data>`
\* (the event's timestamp is not sent)
Frame(e) ==
    [event |-> e.type,
     data |-> IF e.type = "plan_update" THEN <<e.agentId, e.status, e.steps>>
              ELSE <<e.agentId, e.status>>]
Frames(es) == [i \in 1..Len(es) |-> Frame(es[i])]

\* the first frame of a connection: data {type: 'connected', sessionId}
ConnectedFrame == [event |-> "message", data |-> <<0, "connected">>]

\* eventListener of a connection: write the frame of a new event
Deliver(recv, es) == recv \o Frames(es)

\* StateManager.emitEvent: push to session.events, then emit to the listeners
Emit(es) ==
    /\ events' = events \o es
    /\ received' = [s \in Subs |-> IF s \in listeners THEN Deliver(received[s], es)
                                   ELSE received[s]]

----------------------------------------------------------------------------
(* results.md contents and their validation *)

\* a results.md content, by the features validateResults reads
Content(p, n, h, l) == [placeholder |-> p, lines |-> n, header |-> h, length |-> l]

\* what initializeFiles writes: "# Results: <task>\n\n*Processing...*\n\n"
PlaceholderContent == Content(TRUE, 3, 17, 36)
\* what the LLM may write through the file tool
WrittenContents ==
    { Content(FALSE, 3, 17, 80),      \* header and a short paragraph
      Content(FALSE, 12, 17, 517),    \* header and 500 characters
      Content(FALSE, 4, 17, 116) }    \* header and 99 characters

validateResults(c) ==
    LET isPlaceholder == c.placeholder
        hasMinimalContent == c.lines <= 3
        actualContentLength == c.length - c.header
    IN  IF isPlaceholder /\ hasMinimalContent THEN FALSE
        ELSE IF actualContentLength < MIN_CONTENT_LENGTH THEN FALSE
        ELSE TRUE

----------------------------------------------------------------------------
(* Paths.  A path string is a sequence of symbols: the separator "/", the  *)
(* segments "." and "..", and pieces of names.  A name of two pieces, as   *)
(* <<"s", "x">>, is a string that has the name <<"s">> as a string prefix. *)

Sep == "/"

\* process.cwd() of the server
cwd == <<Sep, "app">>
\* workDir the server passes to the orchestrator: './reports'
workDir == <<".", Sep, "reports">>
\* the session id (a UUID)
sessionId == <<"s">>

\* agentId of spawn_agent: `agent_${agentCounter}`
AgentName(a) == "agent_" \o ToString(a)

IsAbsolute(p) == Len(p) > 0 /\ p[1] = Sep

\* the segments of a path string (String.split on the separator)
RECURSIVE Split(_)
Split(p) ==
    IF p = <<>> THEN << <<>> >>
    ELSE LET rest == Split(Tail(p)) IN
         IF Head(p) = Sep THEN << <<>> >> \o rest
         ELSE << <<Head(p)>> \o Head(rest) >> \o Tail(rest)

\* normalizeString of Node's path module: drop empty and "." segments, let
\* ".." remove the segment before it, keep a leading ".." of a relative path
RECURSIVE NormalizeSegs(_, _, _)
NormalizeSegs(segs, acc, allowAboveRoot) ==
    IF segs = <<>> THEN acc
    ELSE LET seg == Head(segs)
             rest == Tail(segs)
         IN  IF seg = <<>> \/ seg = <<".">>
             THEN NormalizeSegs(rest, acc, allowAboveRoot)
             ELSE IF seg = <<"..">>
             THEN IF Len(acc) > 0 /\ acc[Len(acc)] # <<"..">>
                  THEN NormalizeSegs(rest, SubSeq(acc, 1, Len(acc) - 1),
                                     allowAboveRoot)
                  ELSE IF allowAboveRoot
                  THEN NormalizeSegs(rest, Append(acc, seg), allowAboveRoot)
                  ELSE NormalizeSegs(rest, acc, allowAboveRoot)
             ELSE NormalizeSegs(rest, Append(acc, seg), allowAboveRoot)

\* the segments joined by the separator
RECURSIVE JoinSegs(_)
JoinSegs(segs) ==
    IF segs = <<>> THEN <<>>
    ELSE IF Len(segs) = 1 THEN Head(segs)
    ELSE Head(segs) \o <<Sep>> \o JoinSegs(Tail(segs))

\* path.normalize
PathNormalize(p) ==
    IF p = <<>> THEN <<".">>
    ELSE LET isAbsolute == IsAbsolute(p)
             trailingSeparator == p[Len(p)] = Sep
             body == JoinSegs(NormalizeSegs(Split(p), <<>>, ~isAbsolute))
         IN  IF body = <<>>
             THEN IF isAbsolute THEN <<Sep>>
                  ELSE IF trailingSeparator THEN <<".", Sep>> ELSE <<".">>
             ELSE (IF isAbsolute THEN <<Sep>> ELSE <<>>) \o body
                  \o (IF trailingSeparator THEN <<Sep>> ELSE <<>>)

\* the non-empty arguments of path.join, joined by the separator
RECURSIVE Joined(_)
Joined(parts) ==
    IF parts = <<>> THEN <<>>
    ELSE LET rest == Joined(Tail(parts)) IN
         IF Head(parts) = <<>> THEN rest
         ELSE IF rest = <<>> THEN Head(parts)
         ELSE Head(parts) \o <<Sep>> \o rest

\* path.join
PathJoin(parts) ==
    IF Joined(parts) = <<>> THEN <<".">> ELSE PathNormalize(Joined(parts))

\* path.resolve of one argument: absolute, normalized, no trailing separator;
\* it is also the file the fs module opens for a path
PathResolve(p) ==
    LET full == IF IsAbsolute(p) THEN p ELSE cwd \o <<Sep>> \o p
    IN  <<Sep>> \o JoinSegs(NormalizeSegs(Split(full), <<>>, FALSE))

\* path.dirname of a path without trailing separator
PathDirname(p) ==
    LET seps == {i \in 1..Len(p) : p[i] = Sep} IN
    IF seps = {} THEN <<".">>
    ELSE LET last == CHOOSE i \in seps : \A j \in seps : j <= i IN
         IF last = 1 THEN <<Sep>> ELSE SubSeq(p, 1, last - 1)

\* String.prototype.startsWith
StartsWith(str, prefix) ==
    Len(prefix) <= Len(str) /\ SubSeq(str, 1, Len(prefix)) = prefix

\* the session directory and the files of a sub-agent, as the code builds them
SessionDir == PathJoin(<<workDir, sessionId>>)
AgentDir(a) == PathJoin(<<workDir, sessionId, <<"agents">>, <<AgentName(a)>> >>)
ResultsFile(a) == PathJoin(<<AgentDir(a), <<"results.md">> >>)
WorklogFile(a) == PathJoin(<<AgentDir(a), <<"worklog.md">> >>)
StatusFile(a) == PathJoin(<<AgentDir(a), <<"status.json">> >>)
OrchestratorWorklog == PathJoin(<<SessionDir, <<"orchestrator_worklog.md">> >>)

\* a chart a sub-agent's code has saved in its directory
ChartFile(a) == PathJoin(<<AgentDir(a), <<"charts">>, <<"c.png">> >>)

ResolvedSessionDir == PathResolve(PathJoin(<<workDir, sessionId>>))

\* a file of the server itself, outside the reports directory
PackageJson == cwd \o <<Sep, "package.json">>

----------------------------------------------------------------------------
(* Initial state: POST /api/report has created the session, constructed   *)
(* the orchestrator and run generateReport up to its first await.         *)

\* a sub-agent that has called no tool
IdleCounters ==
    /\ stepPhase = "idle"
    /\ toolCallCounts = [t \in ToolNames |-> 0]
    /\ consecutiveToolFailures = [t \in ToolNames |-> 0]
    /\ inFlight = 0
    /\ executed = [t \in ToolNames |-> 0]
    /\ succeeded = [t \in ToolNames |-> 0]
    /\ lastResult = "none"
    /\ recent = <<>>

\* the session scenarios follow no tool in particular
IdleTools == toolInUse = "none" /\ IdleCounters

\* no path has been touched
NoAccess ==
    /\ accessed = {}
    /\ lastTool = <<"none", "none">>

\* spawn_agent is called without context_files
IdlePaths == contextFiles = {} /\ NoAccess

\* wait_for_agents has not been called
NoWait ==
    wait = [pc |-> "idle", agent_ids |-> {}, todo |-> {}, allDone |-> TRUE,
            statuses |-> [a \in AgentIds |-> "none"],
            seen |-> [a \in AgentIds |-> "none"],
            success |-> FALSE, error |-> "none", polls |-> 0]

Items == 1..MaxItems

\* the rate gate as constructed: lastRequestTime is 0, long ago
NoSearch ==
    /\ timeSinceLastRequest = minDelayMs
    /\ queue = <<>>
    /\ isProcessing = FALSE
    /\ gatePc = "idle"
    /\ current = 0
    /\ timer = 0
    /\ enqueued = {}
    /\ itemRetryCount = [i \in Items |-> 0]
    /\ dispatches = [i \in Items |-> 0]
    /\ resolves = [i \in Items |-> 0]
    /\ rejects = [i \in Items |-> 0]

\* write_report has not been called and final_report.md does not exist
NoReport ==
    report = [pc |-> "idle", calls |-> 0, success |-> FALSE,
              file |-> "missing", listed |-> {},
              passed |-> [a \in AgentIds |-> "none"], completed |-> {}]

\* no LLM run of a sub-agent has started or failed
NoBackoff ==
    backoff = [a \in AgentIds |->
                 [runs |-> 0, failures |-> 0, isRateLimit |-> FALSE,
                  delay |-> 0]]

\* initializeWorkspace has written the initial plan (steps: []); no plan
\* tool has been called
InitialPlan ==
    /\ planFile = [hasSteps |-> TRUE, steps |-> <<>>]
    /\ planSteps = <<>>
    /\ stepCounter = 0
    /\ plan = [pc |-> "idle", calls |-> 0, mode |-> "-", steps |-> <<>>,
               before |-> <<>>, counter |-> 0, success |-> FALSE,
               totalSteps |-> 0]

\* createSession: the orchestrator is an agent of the store, without tool
\* calls; addAgent gives every agent an empty toolCalls list
NoToolCalls ==
    /\ toolCalls = [o \in Owners |-> <<>>]
    /\ toolCallsAddedByChunk = {}
    /\ stepCalls = <<>>
    /\ executing = [a \in AgentIds |-> {}]

\* the report has not been asked for
NoFetch == reportResponse = <<"none">>

\* the sessions the server may be asked to create; session s supplies the
\* keys s in its request headers
Sessions == 1..MaxSessions

\* the server as started: its own keys (0) in process.env, no session
NoSessions ==
    keys = [env |-> 0, created |-> {},
            orchestrator |-> [s \in Sessions |-> 0],
            subagent |-> [s \in Sessions |-> <<>>],
            calls |-> 0, used |-> {}]

\* the orchestrator-tool and rate-gate scenarios are idle
IdleAux ==
    /\ NoWait /\ NoSearch /\ NoReport /\ NoBackoff /\ InitialPlan
    /\ NoToolCalls /\ NoFetch /\ NoSessions

InitLife(budget, nclients) ==
    /\ listeners = {}
    /\ received = [s \in Subs |-> <<>>]
    /\ connState = [s \in Subs |-> "idle"]
    /\ attachedAt = [s \in Subs |-> 0]
    /\ activeConnections = 0
    /\ graceTimers = 0
    /\ graceSeen = <<>>
    /\ clients = nclients
    /\ sessionStatus = "planning"
    /\ events = <<SessionStatusChange("planning")>>
    /\ storeStatus = [a \in AgentIds |-> "none"]
    /\ orchPc = "streaming"
    /\ hasExecutedSteps = FALSE
    /\ orchestratorStepNumber = 0
    /\ orchAborted = FALSE
    /\ orchestrators = TRUE
    /\ agents = {}
    /\ runningAgents = {}
    /\ completedAgents = {}
    /\ failedAgents = {}
    /\ agentCounter = 0
    /\ spawnBudget = budget
    /\ spawnRejected = 0
    /\ agentPc = [a \in AgentIds |-> "none"]
    /\ status = [a \in AgentIds |-> "none"]
    /\ retryCount = [a \in AgentIds |-> 0]
    /\ aborted = [a \in AgentIds |-> FALSE]
    /\ resultsFile = [a \in AgentIds |-> PlaceholderContent]
    /\ statusFile = [a \in AgentIds |-> "none"]
    /\ fileWrites = [a \in AgentIds |-> 0]

Init == InitLife(MaxSpawn, 1) /\ IdleTools /\ IdlePaths /\ IdleAux

orchVars == <<orchPc, hasExecutedSteps, orchestratorStepNumber, orchAborted,
              orchestrators>>
ctxVars == <<agents, runningAgents, completedAgents, failedAgents>>
spawnVars == <<agentCounter, spawnBudget, spawnRejected>>
agentVars == <<agentPc, status, retryCount, aborted, resultsFile, statusFile,
               fileWrites>>

----------------------------------------------------------------------------
(* Tool budget of a sub-agent *)

MAX_CONSECUTIVE_FAILURES == 3

TOOL_CALL_LIMITS ==
    [t \in ToolNames |-> CASE t = "view_image" -> 5
                           [] t = "code_interpreter" -> 5
                           [] t = "web_search" -> 20
                           [] t = "file" -> 15]

\* the errorCode checkToolCallLimit answers, "none" for null
checkToolCallLimit(toolName) ==
    IF toolCallCounts[toolName] >= TOOL_CALL_LIMITS[toolName]
    THEN "TOOL_CALL_LIMIT_REACHED"
    ELSE IF consecutiveToolFailures[toolName] >= MAX_CONSECUTIVE_FAILURES
    THEN "TOOL_CALL_LIMIT_REACHED"
    ELSE "none"

recordToolCall(toolName, success) ==
    /\ toolCallCounts' = [toolCallCounts EXCEPT ![toolName] = @ + 1]
    /\ consecutiveToolFailures' =
          [consecutiveToolFailures EXCEPT
              ![toolName] = IF success THEN 0 ELSE @ + 1]

\* some sub-agent is inside an LLM run
InLlmRun == \E a \in AgentIds : agentPc[a] = "run"

----------------------------------------------------------------------------
(* Orchestrator: generateReport *)

\* onStepFinish for a step that carries tool calls
OrchStep ==
    /\ orchPc = "streaming"
    /\ ~orchAborted
    /\ orchestratorStepNumber < MaxOrchSteps
    /\ hasExecutedSteps' = TRUE
    /\ orchestratorStepNumber' = orchestratorStepNumber + 1
    /\ Emit(<<OrchestratorStep>>)
    /\ UNCHANGED <<sessionStatus, storeStatus, orchPc, orchAborted,
                   orchestrators, ctxVars, spawnVars, agentVars,
                   streamVars, nonLife>>

\* a stream end that does not look at the steps executed
StreamEndUnvalidated ==
    /\ orchPc = "streaming"
    /\ sessionStatus' = "completed"
    /\ Emit(<<SessionStatusChange("completed")>>)
    /\ orchPc' = "logging"
    /\ UNCHANGED <<storeStatus, hasExecutedSteps, orchestratorStepNumber,
                   orchAborted, orchestrators, ctxVars, spawnVars, agentVars,
                   streamVars, nonLife>>

\* the text stream ends without throwing
StreamEnd ==
    /\ orchPc = "streaming"
    /\ IF ~hasExecutedSteps /\ orchestratorStepNumber = 0
       THEN \* lines 363-373, then the catch of lines 408-417
            /\ sessionStatus' = "failed"
            /\ Emit(<<SessionStatusChange("failed"), OrchestratorError,
                      SessionStatusChange("failed"), OrchestratorError>>)
            /\ orchPc' = "rejected"
       ELSE /\ sessionStatus' = "completed"
            /\ Emit(<<SessionStatusChange("completed")>>)
            /\ orchPc' = "logging"
    /\ UNCHANGED <<storeStatus, hasExecutedSteps, orchestratorStepNumber,
                   orchAborted, orchestrators, ctxVars, spawnVars, agentVars,
                   streamVars, nonLife>>

\* streamText or the text stream throws
StreamThrow ==
    /\ orchPc = "streaming"
    /\ sessionStatus' = "failed"
    /\ Emit(<<SessionStatusChange("failed"), OrchestratorError>>)
    /\ orchPc' = "rejected"
    /\ UNCHANGED <<storeStatus, hasExecutedSteps, orchestratorStepNumber,
                   orchAborted, orchestrators, ctxVars, spawnVars, agentVars,
                   streamVars, nonLife>>

\* logResearchSession returns; generateReport resolves; .finally of the handler
ReportResolved ==
    /\ orchPc = "logging"
    /\ orchPc' = "done"
    /\ orchestrators' = FALSE
    /\ UNCHANGED <<sessionStatus, events, received, storeStatus, hasExecutedSteps,
                   orchestratorStepNumber, orchAborted, ctxVars, spawnVars,
                   agentVars,
                   streamVars, nonLife>>

\* .catch and .finally of the POST /api/report handler
ReportRejected ==
    /\ orchPc = "rejected"
    /\ sessionStatus' = "failed"
    /\ Emit(<<SessionStatusChange("failed"), OrchestratorError>>)
    /\ orchPc' = "done"
    /\ orchestrators' = FALSE
    /\ UNCHANGED <<storeStatus, hasExecutedSteps, orchestratorStepNumber,
                   orchAborted, ctxVars, spawnVars, agentVars,
                   streamVars, nonLife>>

\* statuses the disconnect timer takes for "still in progress"
InProgressStatuses == {"planning", "running", "delegating", "initializing"}

\* the disconnect timer's test (the orchestrator exists, the session is still
\* in progress, no connection remains)
ShouldAbortUnguarded == activeConnections = 0
ShouldAbort ==
    /\ activeConnections = 0
    /\ sessionStatus \in InProgressStatuses
    /\ orchestrators

\* a disconnect timer fires and aborts: StreamingOrchestrator.abort(), which
\* calls StreamingSubAgent.abort() on every running agent
Abort ==
    /\ graceTimers > 0
    /\ ShouldAbort
    /\ graceTimers' = graceTimers - 1
    /\ graceSeen' = Tail(graceSeen)
    /\ orchAborted' = TRUE
    /\ status' = [a \in AgentIds |->
                    IF a \in agents /\ a \in runningAgents THEN "failed"
                    ELSE status[a]]
    /\ aborted' = [a \in AgentIds |->
                    IF a \in agents /\ a \in runningAgents THEN TRUE
                    ELSE aborted[a]]
    /\ sessionStatus' = "failed"
    /\ Emit(<<SessionStatusChange("failed"), OrchestratorError>>)
    /\ orchestrators' = FALSE
    /\ activeConnections' = 0
    /\ UNCHANGED <<storeStatus, orchPc, hasExecutedSteps,
                   orchestratorStepNumber, ctxVars, spawnVars, agentPc,
                   retryCount, resultsFile, statusFile, fileWrites,
                   listeners, connState, attachedAt, clients, nonLife>>

\* a disconnect timer fires and finds nothing to abort
GraceExpires ==
    /\ graceTimers > 0
    /\ ~ShouldAbort
    /\ graceTimers' = graceTimers - 1
    /\ graceSeen' = Tail(graceSeen)
    /\ UNCHANGED <<lifeVars, received, listeners, connState, attachedAt,
                   activeConnections, clients, nonLife>>

----------------------------------------------------------------------------
(* SSE endpoint *)

\* the frames of the events already in the log (session.events.forEach)
SendExistingButLast(log) == Frames(SubSeq(log, 1, Len(log) - 1))
SendExisting(log) == Frames(log)

\* GET /api/stream/:sessionId: count the connection, write the connected
\* frame and the backlog, register the listener
Subscribe(s) ==
    /\ s <= clients
    /\ connState[s] = "idle"
    /\ activeConnections' = activeConnections + 1
    /\ received' = [received EXCEPT ![s] = <<ConnectedFrame>> \o SendExisting(events)]
    /\ listeners' = listeners \cup {s}
    /\ connState' = [connState EXCEPT ![s] = "open"]
    /\ attachedAt' = [attachedAt EXCEPT ![s] = Len(events)]
    /\ graceSeen' = [i \in 1..Len(graceSeen) |-> TRUE]
    /\ UNCHANGED <<lifeVars, graceTimers, clients, nonLife>>

\* req.on('close'): remove the listener, count down, schedule the grace timer
Close(s) ==
    /\ connState[s] = "open"
    /\ listeners' = listeners \ {s}
    /\ activeConnections' =
          (IF activeConnections = 0 THEN 1 ELSE activeConnections) - 1
    /\ graceTimers' = graceTimers + 1
    /\ graceSeen' = Append(graceSeen, activeConnections' > 0)
    /\ connState' = [connState EXCEPT ![s] = "closed"]
    /\ UNCHANGED <<lifeVars, received, attachedAt, clients, nonLife>>

----------------------------------------------------------------------------
(* The path arguments of the tools and the files they name *)

PathOps == {"read", "write"}

\* paths the orchestrator's and the sub-agents' LLM may pass to a tool
PathInputs ==
    { <<"notes.md">>,
      <<"charts", Sep, "c.png">>,
      <<"reports", Sep>> \o sessionId \o <<Sep, "orchestrator_worklog.md">>,
      <<"..", Sep>> \o sessionId \o <<"x", Sep, "notes.md">>,
      <<"..", Sep, "..", Sep, "..", Sep, "..", Sep, "package.json">>,
      PackageJson }

\* the orchestrator's file tool: resolvedPath of a path argument
OrchFileResolved ==
    [filePath \in PathInputs |->
        LET fullPath == PathJoin(<<workDir, sessionId, filePath>>)
        IN  PathResolve(fullPath)]

\* the file fullPath names for the orchestrator's view_image tool
OrchImageResolved ==
    [imagePath \in PathInputs |->
        LET sessionDir == PathJoin(<<workDir, sessionId>>)
            fullPath == IF IsAbsolute(imagePath) THEN imagePath
                        ELSE PathJoin(<<sessionDir, imagePath>>)
        IN  PathResolve(fullPath)]

\* the file fullPath names for a sub-agent's view_image tool
SubImageResolved ==
    [a \in AgentIds |-> [imagePath \in PathInputs |->
        LET fullPath == IF IsAbsolute(imagePath) THEN imagePath
                        ELSE PathJoin(<<AgentDir(a), imagePath>>)
        IN  PathResolve(fullPath)]]

\* the file fs.readFile opens for a context file
ContextResolved == [filePath \in PathInputs |-> PathResolve(filePath)]

\* path.basename of a path without trailing separator
PathBasename(p) ==
    LET seps == {i \in 1..Len(p) : p[i] = Sep} IN
    IF seps = {} THEN p
    ELSE LET last == CHOOSE i \in seps : \A j \in seps : j <= i IN
         SubSeq(p, last + 1, Len(p))

\* ALLOWED_FILES of the sub-agent file tool
ALLOWED_FILES == {<<"results.md">>, <<"worklog.md">>}

\* the paths the inputSchema of the sub-agent file tool admits
FileSchemaPaths == {<<"results.md">>, <<"worklog.md">>}

\* paths a sub-agent's LLM may pass to its file tool
SubFileInputs ==
    FileSchemaPaths \cup
    { <<"charts", Sep, "results.md">>,
      <<"..", Sep, "agent_2", Sep, "results.md">>,
      <<"..", Sep, "..", Sep, "..", Sep, "..", Sep, "package.json">> }

\* the sub-agent file tool: fullPath of a path argument
SubFileFull ==
    [a \in AgentIds |-> [filePath \in SubFileInputs |->
        IF IsAbsolute(filePath) THEN filePath
        ELSE PathJoin(<<AgentDir(a), filePath>>)]]

\* the sub-agent file tool: resolvedPath of a path argument
SubFileResolved ==
    [a \in AgentIds |-> [filePath \in SubFileInputs |->
        PathResolve(SubFileFull[a][filePath])]]

\* agentDirResolved
AgentDirResolved == [a \in AgentIds |-> PathResolve(AgentDir(a))]

\* allowedFilePaths as the constructor fills it
InitialAllowedFilePaths ==
    [a \in AgentIds |-> {ResultsFile(a), WorklogFile(a), StatusFile(a)}]

\* the file the sub-agent's file tool writes for results.md
ResultsResolved == [a \in AgentIds |-> PathResolve(ResultsFile(a))]

\* the file write_report saves
ReportPath == PathResolve(PathJoin(<<SessionDir, <<"final_report.md">> >>))

\* the copies get_agent_result leaves in the shared artifacts folder
ArtifactCopies ==
    [a \in AgentIds |->
        LET artifactsDir == PathJoin(<<SessionDir, <<"artifacts">>,
                                       <<AgentName(a)>> >>)
        IN  {PathResolve(PathJoin(<<artifactsDir, <<"results.md">> >>)),
             PathResolve(PathJoin(<<artifactsDir,
                                    PathBasename(ChartFile(a))>>))}]

\* the results.md write_report reads for an agent
ArtifactResultsFile ==
    [a \in AgentIds |->
        PathResolve(PathJoin(<<SessionDir, <<"artifacts">>, <<AgentName(a)>>,
                              <<"results.md">> >>))]

----------------------------------------------------------------------------
(* The file system *)

\* the sub-agents whose workspace has been created
Initialized(a) == agentPc[a] \notin {"none", "mkdir"}

\* the files a sub-agent has in its directory
AgentFiles ==
    [a \in AgentIds |->
        {PathResolve(ResultsFile(a)), PathResolve(WorklogFile(a)),
         PathResolve(StatusFile(a)), PathResolve(ChartFile(a))}]

\* the directories of a sub-agent
AgentDirs ==
    [a \in AgentIds |->
        {PathResolve(AgentDir(a)), PathResolve(PathDirname(ChartFile(a)))}]

\* the directories initializeWorkspace creates, and those above them
SessionDirs ==
    {cwd, PathResolve(workDir), PathResolve(SessionDir),
     PathResolve(PathJoin(<<SessionDir, <<"agents">> >>)),
     PathResolve(PathJoin(<<SessionDir, <<"artifacts">> >>))}

\* the files initializeWorkspace creates, and the server's own
SessionFiles == {PathResolve(OrchestratorWorklog), PackageJson}

\* the files on disk
Exists(p) ==
    \/ p \in SessionFiles
    \/ \E a \in AgentIds : Initialized(a) /\ p \in AgentFiles[a]
    \/ p \in accessed

\* the directories on disk
DirExists(d) ==
    \/ d \in SessionDirs
    \/ \E a \in AgentIds : agentPc[a] # "none" /\ d \in AgentDirs[a]

----------------------------------------------------------------------------
(* spawn_agent *)

\* the limit check of spawn_agent
AgentLimitReached(currentAgentCount) == currentAgentCount >= MAX_AGENTS

\* spawn_agent up to `await fs.mkdir`
SpawnBegin ==
    /\ orchPc = "streaming"
    /\ ~orchAborted
    /\ spawnBudget > 0
    /\ ~AgentLimitReached(Cardinality(agents))
    /\ LET a == agentCounter + 1 IN
        /\ agentCounter' = a
        /\ storeStatus' = [storeStatus EXCEPT ![a] = "running"]
        /\ Emit(<<AgentSpawned(a), AgentStatusChange(a, "running")>>)
        /\ agentPc' = [agentPc EXCEPT ![a] = "mkdir"]
    /\ spawnBudget' = spawnBudget - 1
    /\ UNCHANGED <<sessionStatus, orchVars, ctxVars, spawnRejected, status,
                   retryCount, aborted, resultsFile, statusFile, fileWrites,
                   streamVars, nonLife>>

\* spawn_agent answers AGENT_LIMIT_REACHED
SpawnReject ==
    /\ orchPc = "streaming"
    /\ ~orchAborted
    /\ spawnBudget > 0
    /\ AgentLimitReached(Cardinality(agents))
    /\ spawnBudget' = spawnBudget - 1
    /\ spawnRejected' = spawnRejected + 1
    /\ UNCHANGED <<sessionStatus, events, received, storeStatus, orchVars, ctxVars,
                   agentCounter, agentVars,
                   streamVars, nonLife>>

\* the context files executeTask can read (fs.readFile of the path as given)
LoadedContextFiles ==
    {ContextResolved[f] : f \in {g \in contextFiles : Exists(ContextResolved[g])}}

\* spawn_agent after mkdir: construct the sub-agent, register it, start
\* executeTask, which loads the context files and starts the first LLM run
SpawnRegister(a) ==
    /\ agentPc[a] = "mkdir"
    /\ accessed' = accessed \cup LoadedContextFiles
    /\ agents' = agents \cup {a}
    /\ runningAgents' = runningAgents \cup {a}
    /\ status' = [status EXCEPT ![a] = "running"]
    /\ statusFile' = [statusFile EXCEPT ![a] = "running"]
    /\ agentPc' = [agentPc EXCEPT ![a] = "run"]
    /\ backoff' = [backoff EXCEPT ![a].runs = 1]
    /\ UNCHANGED <<sessionStatus, events, received, storeStatus, orchVars,
                   completedAgents, failedAgents, spawnVars, retryCount,
                   aborted, resultsFile, fileWrites,
                   streamVars, toolVars, contextFiles, lastTool, waitVars,
                   gateVars, reportVars, restVars>>

----------------------------------------------------------------------------
(* Sub-agent: executeTask *)

\* the file tool writes results.md during an LLM run
AgentWriteResults(a) ==
    /\ agentPc[a] = "run"
    /\ ~aborted[a]
    /\ fileWrites[a] < MaxWrites
    /\ checkToolCallLimit("file") = "none"
    /\ accessed' = accessed \cup {ResultsResolved[a]}
    /\ \E c \in WrittenContents : resultsFile' = [resultsFile EXCEPT ![a] = c]
    /\ fileWrites' = [fileWrites EXCEPT ![a] = @ + 1]
    /\ Emit(<<ToolCallEvent(a), ToolResultEvent(a, "completed")>>)
    /\ UNCHANGED <<sessionStatus, storeStatus, orchVars, ctxVars, spawnVars,
                   agentPc, status, retryCount, aborted, statusFile,
                   streamVars, toolVars, contextFiles, lastTool, auxVars>>

\* runAgent returns
RunReturns(a) ==
    /\ agentPc[a] = "run"
    /\ agentPc' = [agentPc EXCEPT ![a] = "validate"]
    /\ UNCHANGED <<sessionStatus, events, received, storeStatus, orchVars, ctxVars,
                   spawnVars, status, retryCount, aborted, resultsFile,
                   statusFile, fileWrites,
                   streamVars, nonLife>>

\* a test that lets the last attempt be retried as well
MayRetryValidationAlso(rc) == rc < MAX_ATTEMPTS

\* may this validation failure be retried (line 472)
MayRetryValidation(rc) == rc < MAX_ATTEMPTS - 1

\* validateResults returns: retry, or mark completed
Validate(a) ==
    /\ agentPc[a] = "validate"
    /\ IF ~validateResults(resultsFile[a]) /\ MayRetryValidation(retryCount[a])
       THEN /\ retryCount' = [retryCount EXCEPT ![a] = @ + 1]
            /\ agentPc' = [agentPc EXCEPT ![a] = "run"]
            /\ backoff' = [backoff EXCEPT ![a].runs = @ + 1]
            /\ UNCHANGED status
       ELSE /\ status' = [status EXCEPT ![a] = "completed"]
            /\ agentPc' = [agentPc EXCEPT ![a] = "completing"]
            /\ UNCHANGED <<retryCount, backoff>>
    /\ UNCHANGED <<sessionStatus, events, received, storeStatus, orchVars, ctxVars,
                   spawnVars, aborted, resultsFile, statusFile, fileWrites,
                   streamVars, toolVars, pathVars, waitVars, gateVars,
                   reportVars, restVars>>

\* updateStatus after `status = "completed"`; executeTask returns
CompletedWritten(a) ==
    /\ agentPc[a] = "completing"
    /\ statusFile' = [statusFile EXCEPT ![a] = "completed"]
    /\ agentPc' = [agentPc EXCEPT ![a] = "resolved"]
    /\ UNCHANGED <<sessionStatus, events, received, storeStatus, orchVars, ctxVars,
                   spawnVars, status, retryCount, aborted, resultsFile,
                   fileWrites,
                   streamVars, nonLife>>

Pow2(n) == IF n = 0 THEN 1 ELSE IF n = 1 THEN 2 ELSE IF n = 2 THEN 4 ELSE 8

\* baseDelay * Math.pow(2, this.retryCount - 1), retryCount already counted up
baseDelay(isRateLimit) == IF isRateLimit THEN 5000 ELSE 2000
backoffDelay(isRateLimit, rc) == baseDelay(isRateLimit) * Pow2(rc - 1)

\* runAgent throws an error of either class: the catch block of executeTask
RunThrows(a) ==
    /\ agentPc[a] = "run"
    /\ retryCount' = [retryCount EXCEPT ![a] = @ + 1]
    /\ \E isRateLimit \in BOOLEAN :
         IF retryCount[a] + 1 >= MAX_ATTEMPTS
         THEN /\ status' = [status EXCEPT ![a] = "failed"]
              /\ agentPc' = [agentPc EXCEPT ![a] = "failing"]
              /\ backoff' = [backoff EXCEPT ![a] =
                     [runs |-> @.runs, failures |-> @.failures + 1,
                      isRateLimit |-> isRateLimit, delay |-> 0]]
         ELSE /\ agentPc' = [agentPc EXCEPT ![a] = "backoff"]
              /\ backoff' = [backoff EXCEPT ![a] =
                     [runs |-> @.runs, failures |-> @.failures + 1,
                      isRateLimit |-> isRateLimit,
                      delay |-> backoffDelay(isRateLimit, retryCount[a] + 1)]]
              /\ UNCHANGED status
    /\ UNCHANGED <<sessionStatus, events, received, storeStatus, orchVars, ctxVars,
                   spawnVars, aborted, resultsFile, statusFile, fileWrites,
                   streamVars, toolVars, pathVars, waitVars, gateVars,
                   reportVars, restVars>>

\* the backoff timer fires; the loop starts the next LLM run
BackoffDone(a) ==
    /\ agentPc[a] = "backoff"
    /\ agentPc' = [agentPc EXCEPT ![a] = "run"]
    /\ backoff' = [backoff EXCEPT ![a].delay = 0, ![a].runs = @ + 1]
    /\ UNCHANGED <<sessionStatus, events, received, storeStatus, orchVars, ctxVars,
                   spawnVars, status, retryCount, aborted, resultsFile,
                   statusFile, fileWrites,
                   streamVars, toolVars, pathVars, waitVars, gateVars,
                   reportVars, restVars>>

\* updateStatus after `status = "failed"`; agent_failed; executeTask throws
FailedWritten(a) ==
    /\ agentPc[a] = "failing"
    /\ statusFile' = [statusFile EXCEPT ![a] = status[a]]
    /\ Emit(<<AgentFailed(a)>>)
    /\ agentPc' = [agentPc EXCEPT ![a] = "rejected"]
    /\ UNCHANGED <<sessionStatus, storeStatus, orchVars, ctxVars, spawnVars,
                   status, retryCount, aborted, resultsFile, fileWrites,
                   streamVars, nonLife>>

\* spawn_agent's then-callback of executeTask
OnFulfilled(a) ==
    /\ agentPc[a] = "resolved"
    /\ runningAgents' = runningAgents \ {a}
    /\ completedAgents' = completedAgents \cup {a}
    /\ storeStatus' = [storeStatus EXCEPT ![a] = "completed"]
    /\ Emit(<<AgentStatusChange(a, "completed")>>)
    /\ agentPc' = [agentPc EXCEPT ![a] = "end"]
    /\ UNCHANGED <<sessionStatus, orchVars, agents, failedAgents, spawnVars,
                   status, retryCount, aborted, resultsFile, statusFile,
                   fileWrites,
                   streamVars, nonLife>>

\* spawn_agent's rejection callback of executeTask
OnRejected(a) ==
    /\ agentPc[a] = "rejected"
    /\ runningAgents' = runningAgents \ {a}
    /\ failedAgents' = failedAgents \cup {a}
    /\ storeStatus' = [storeStatus EXCEPT ![a] = "failed"]
    /\ Emit(<<AgentStatusChange(a, "failed")>>)
    /\ agentPc' = [agentPc EXCEPT ![a] = "end"]
    /\ UNCHANGED <<sessionStatus, orchVars, agents, completedAgents,
                   spawnVars, status, retryCount, aborted, resultsFile,
                   statusFile, fileWrites,
                   streamVars, nonLife>>

----------------------------------------------------------------------------
(* Sub-agent tool budget.  The tool calls of one LLM step start one after  *)
(* the other, each running to its first await, and finish in any order;    *)
(* the next step starts when all have finished.                            *)

\* the web_search, code_interpreter or view_image tool up to its first
\* await: the limit check passed, the call goes on to the search provider,
\* the sandbox or the image file; likewise the file tool up to its fs call
ToolStart(t) ==
    /\ toolInUse = t
    /\ InLlmRun
    /\ stepPhase \in {"idle", "dispatch"}
    /\ inFlight < MaxConcurrent
    /\ executed[t] < TOOL_CALL_LIMITS[t] + MaxOverrun
    /\ checkToolCallLimit(t) = "none"
    /\ inFlight' = inFlight + 1
    /\ executed' = [executed EXCEPT ![t] = @ + 1]
    /\ stepPhase' = "dispatch"
    /\ UNCHANGED <<lifeVars, received, streamVars, toolInUse, toolCallCounts,
                   consecutiveToolFailures, succeeded, lastResult, recent, pathVars,
                   auxVars>>

\* a tool call the limit check turns down
ToolReject(t) ==
    /\ toolInUse = t
    /\ InLlmRun
    /\ stepPhase \in {"idle", "dispatch"}
    /\ checkToolCallLimit(t) # "none"
    /\ lastResult' = checkToolCallLimit(t)
    /\ UNCHANGED <<lifeVars, received, streamVars, toolInUse, stepPhase,
                   toolCallCounts, consecutiveToolFailures, inFlight, executed,
                   succeeded, recent, pathVars, auxVars>>

\* the last MAX_CONSECUTIVE_FAILURES entries of a sequence
Latest(seq) ==
    IF Len(seq) <= MAX_CONSECUTIVE_FAILURES THEN seq
    ELSE SubSeq(seq, Len(seq) - MAX_CONSECUTIVE_FAILURES + 1, Len(seq))

\* the step's phase once one of its calls has returned
AfterReturn == IF inFlight = 1 THEN "idle" ELSE "collect"

\* web_search, code_interpreter or view_image returns: the call is recorded
ToolFinish(t, success) ==
    /\ toolInUse = t
    /\ t # "file"
    /\ inFlight > 0
    /\ recordToolCall(t, success)
    /\ succeeded' = [succeeded EXCEPT ![t] = IF success THEN @ + 1 ELSE @]
    /\ lastResult' = IF success THEN "success" ELSE "error"
    /\ recent' = Latest(Append(recent, success))
    /\ inFlight' = inFlight - 1
    /\ stepPhase' = AfterReturn
    /\ UNCHANGED <<lifeVars, received, streamVars, toolInUse, executed,
                   pathVars, auxVars>>

FileOutcomes == {"success", "error", "threw"}

\* the file tool returns: a success records nothing, a failed fs call or a
\* write without content records a failure, an fs call that throws in the
\* results.md branch rejects the call and records nothing
FileFinish(outcome) ==
    /\ toolInUse = "file"
    /\ inFlight > 0
    /\ IF outcome = "error"
       THEN recordToolCall("file", FALSE)
       ELSE UNCHANGED <<toolCallCounts, consecutiveToolFailures>>
    /\ succeeded' = [succeeded EXCEPT
                        !["file"] = IF outcome = "success" THEN @ + 1 ELSE @]
    /\ lastResult' = outcome
    /\ recent' = Latest(Append(recent, outcome = "success"))
    /\ inFlight' = inFlight - 1
    /\ stepPhase' = AfterReturn
    /\ UNCHANGED <<lifeVars, received, streamVars, toolInUse, executed,
                   pathVars, auxVars>>

----------------------------------------------------------------------------
(* Tools that take a path *)

\* the orchestrator's file tool
OrchFile(filePath, operation) ==
    /\ orchPc = "streaming"
    /\ LET resolvedPath == OrchFileResolved[filePath]
           sessionDir == ResolvedSessionDir
       IN  IF ~StartsWith(resolvedPath, sessionDir)
           THEN /\ lastTool' = <<"file", "denied">>
                /\ UNCHANGED accessed
           ELSE IF \/ operation = "read" /\ Exists(resolvedPath)
                   \/ operation = "write" /\ DirExists(PathDirname(resolvedPath))
           THEN /\ accessed' = accessed \cup {resolvedPath}
                /\ lastTool' = <<"file", "success">>
           ELSE /\ lastTool' = <<"file", "error">>
                /\ UNCHANGED accessed
    /\ UNCHANGED <<lifeVars, received, streamVars, toolVars, contextFiles, auxVars>>

\* the orchestrator's view_image tool
OrchViewImage(imagePath) ==
    /\ orchPc = "streaming"
    /\ LET opened == OrchImageResolved[imagePath]
       IN  IF Exists(opened)
           THEN /\ accessed' = accessed \cup {opened}
                /\ lastTool' = <<"view_image", "success">>
           ELSE /\ lastTool' = <<"view_image", "not_found">>
                /\ UNCHANGED accessed
    /\ UNCHANGED <<lifeVars, received, streamVars, toolVars, contextFiles, auxVars>>

\* a sub-agent's view_image tool, called alone in its step (the budget
\* scenario counts the calls that run)
SubViewImage(a, imagePath) ==
    /\ agentPc[a] = "run"
    /\ stepPhase = "idle"
    /\ IF checkToolCallLimit("view_image") # "none"
       THEN /\ lastTool' = <<"view_image", checkToolCallLimit("view_image")>>
            /\ UNCHANGED <<accessed, toolCallCounts, consecutiveToolFailures>>
       ELSE LET opened == SubImageResolved[a][imagePath]
                found == Exists(opened)
            IN  /\ accessed' = IF found THEN accessed \cup {opened}
                               ELSE accessed
                /\ lastTool' = <<"view_image",
                                 IF found THEN "success" ELSE "not_found">>
                /\ recordToolCall("view_image", found)
    /\ UNCHANGED <<lifeVars, received, streamVars, toolInUse, stepPhase,
                   inFlight, executed, succeeded, lastResult, recent, contextFiles,
                   auxVars>>

\* a sub-agent's file tool, called alone in its step, for any path argument
\* (read, or write with content)
SubFile(a, filePath, operation) ==
    /\ agentPc[a] = "run"
    /\ ~aborted[a]
    /\ stepPhase = "idle"
    /\ fileWrites[a] < MaxWrites
    /\ fileWrites' = [fileWrites EXCEPT ![a] = @ + 1]
    /\ LET fullPath == SubFileFull[a][filePath]
           resolvedPath == SubFileResolved[a][filePath]
           resultsBranch == fullPath = ResultsFile(a) \/ filePath = <<"results.md">>
           target == IF resultsBranch THEN ResultsResolved[a] ELSE resolvedPath
           allowed == \/ fullPath \in InitialAllowedFilePaths[a] \cup contextFiles
                      \/ StartsWith(resolvedPath, AgentDirResolved[a])
           done == IF operation = "read" THEN Exists(target)
                   ELSE DirExists(PathDirname(target))
           code == IF PathBasename(filePath) \notin ALLOWED_FILES
                   THEN "FILE_ACCESS_DENIED"
                   ELSE IF checkToolCallLimit("file") # "none"
                   THEN checkToolCallLimit("file")
                   ELSE IF ~resultsBranch /\ ~allowed THEN "FILE_ACCESS_DENIED"
                   ELSE IF done THEN "success"
                   ELSE "FILE_NOT_FOUND"
           recorded == \/ code = "FILE_NOT_FOUND" /\ ~resultsBranch
                       \/ /\ code = "FILE_ACCESS_DENIED"
                          /\ PathBasename(filePath) \in ALLOWED_FILES
       IN  /\ lastTool' = <<"file", code>>
           /\ accessed' = IF code = "success" THEN accessed \cup {target}
                          ELSE accessed
           /\ IF code = "success" /\ operation = "write"
                 /\ target = ResultsResolved[a]
              THEN \E c \in WrittenContents :
                      resultsFile' = [resultsFile EXCEPT ![a] = c]
              ELSE UNCHANGED resultsFile
           /\ IF recorded THEN recordToolCall("file", FALSE)
              ELSE UNCHANGED <<toolCallCounts, consecutiveToolFailures>>
           /\ Emit(<<ToolCallEvent(a),
                     ToolResultEvent(a, IF code = "success" THEN "completed"
                                        ELSE "failed")>>)
    /\ UNCHANGED <<sessionStatus, storeStatus, orchVars, ctxVars, spawnVars,
                   agentPc, status, retryCount, aborted, statusFile,
                   streamVars, toolInUse, stepPhase, inFlight, executed,
                   succeeded, lastResult, recent, contextFiles, auxVars>>

\* a file call whose path the tool's inputSchema does not admit, turned
\* down by the schema validation before execute runs
SubFileInvalid(a, filePath) ==
    /\ agentPc[a] = "run"
    /\ ~aborted[a]
    /\ filePath \notin FileSchemaPaths
    /\ lastTool' = <<"file", "INVALID_INPUT">>
    /\ UNCHANGED <<lifeVars, received, streamVars, toolVars, contextFiles,
                   accessed, auxVars>>

----------------------------------------------------------------------------
(* wait_for_agents.  Each `await agent.getStatus()` is a step of its own:  *)
(* the agents go on between two of them.  The clock is not followed: at    *)
(* the head of the polling loop the timeout has either elapsed or not.     *)

\* the agent_ids a call may pass: the first n agents of the session
WaitInputs == {1..n : n \in 1..MaxNamed}

\* what getStatus can return: the status of status.json, or, when the file
\* cannot be read and parsed (not yet written, or read while updateStatus is
\* rewriting it), the agent's in-memory status
getStatus(a) ==
    IF statusFile[a] = "none" THEN {status[a]}
    ELSE {statusFile[a]} \cup
         (IF agentPc[a] \in {"completing", "failing"} THEN {status[a]} ELSE {})

\* wait_for_agents up to the first getStatus: the ids are validated
WaitCall(agent_ids) ==
    /\ orchPc = "streaming"
    /\ ~orchAborted
    /\ wait.pc = "idle"
    /\ LET invalidAgents == {id \in agent_ids : id \notin agents} IN
       IF invalidAgents # {}
       THEN wait' = [wait EXCEPT !.pc = "returned", !.agent_ids = agent_ids,
                                 !.success = FALSE, !.error = "AGENT_NOT_FOUND"]
       ELSE wait' = [wait EXCEPT !.pc = "poll", !.agent_ids = agent_ids,
                                 !.todo = agent_ids, !.allDone = TRUE]
    /\ UNCHANGED <<lifeVars, received, streamVars, toolVars, pathVars, gateVars,
                   reportVars, extVars>>

\* a polling step that takes every status for a terminal one
WaitGetStatusAnyDone(a) ==
    /\ wait.pc = "poll"
    /\ a \in wait.todo
    /\ \E st \in getStatus(a) :
          wait' = [wait EXCEPT !.todo = @ \ {a},
                               !.seen[a] = st,
                               !.statuses[a] = st]
    /\ UNCHANGED <<lifeVars, received, streamVars, toolVars, pathVars, gateVars,
                   reportVars, extVars>>

\* one `await agent.getStatus()` of the polling loop
WaitGetStatus(a) ==
    /\ wait.pc = "poll"
    /\ a \in wait.todo
    /\ \E st \in getStatus(a) :
          wait' = [wait EXCEPT !.todo = @ \ {a},
                               !.seen[a] = st,
                               !.statuses[a] = IF st \in Terminal THEN st ELSE @,
                               !.allDone = IF st \in Terminal THEN @ ELSE FALSE]
    /\ UNCHANGED <<lifeVars, received, streamVars, toolVars, pathVars, gateVars,
                   reportVars, extVars>>

\* the end of a polling round: return success, or sleep
WaitRoundEnd ==
    /\ wait.pc = "poll"
    /\ wait.todo = {}
    /\ IF wait.allDone
       THEN wait' = [wait EXCEPT !.pc = "returned", !.success = TRUE]
       ELSE wait' = [wait EXCEPT !.pc = "sleep"]
    /\ UNCHANGED <<lifeVars, received, streamVars, toolVars, pathVars, gateVars,
                   reportVars, extVars>>

\* a polling loop whose condition never sees the timeout elapsed
WaitWakeNoTimeout(elapsed) ==
    /\ wait.pc = "sleep"
    /\ wait' = [wait EXCEPT !.pc = "poll", !.todo = wait.agent_ids,
                            !.allDone = TRUE,
                            !.statuses = [a \in AgentIds |-> "none"]]
    /\ UNCHANGED <<lifeVars, received, streamVars, toolVars, pathVars, gateVars,
                   reportVars, extVars>>

\* the sleep ends and the loop condition is tested: another round, or the
\* timeout has elapsed and the final statuses are collected
WaitWake(elapsed) ==
    /\ wait.pc = "sleep"
    /\ ~elapsed => wait.polls < MaxPolls
    /\ IF elapsed
       THEN wait' = [wait EXCEPT !.pc = "timeout", !.todo = wait.agent_ids]
       ELSE wait' = [wait EXCEPT !.pc = "poll", !.todo = wait.agent_ids,
                                 !.allDone = TRUE, !.polls = @ + 1,
                                 !.statuses = [a \in AgentIds |-> "none"]]
    /\ UNCHANGED <<lifeVars, received, streamVars, toolVars, pathVars, gateVars,
                   reportVars, extVars>>

\* one `await agent.getStatus()` of the timeout branch
WaitFinalStatus(a) ==
    /\ wait.pc = "timeout"
    /\ a \in wait.todo
    /\ \E st \in getStatus(a) :
          wait' = [wait EXCEPT !.todo = @ \ {a},
                               !.seen[a] = st,
                               !.statuses[a] = IF st = "completed"
                                               THEN "completed" ELSE "failed"]
    /\ UNCHANGED <<lifeVars, received, streamVars, toolVars, pathVars, gateVars,
                   reportVars, extVars>>

\* the timeout branch returns
WaitTimeoutReturn ==
    /\ wait.pc = "timeout"
    /\ wait.todo = {}
    /\ wait' = [wait EXCEPT !.pc = "returned", !.success = FALSE,
                            !.error = "Timeout waiting for agents"]
    /\ UNCHANGED <<lifeVars, received, streamVars, toolVars, pathVars, gateVars,
                   reportVars, extVars>>

----------------------------------------------------------------------------
(* get_agent_result *)

\* get_agent_result: an agent that is not registered gives failed, one
\* whose status is not completed gives not_ready; otherwise results.md is
\* read and copied with the charts to the artifacts folder
GetAgentResult(agent_id) ==
    /\ orchPc = "streaming"
    /\ ~orchAborted
    /\ IF agent_id \notin agents
       THEN /\ lastTool' = <<"get_agent_result", "failed">>
            /\ UNCHANGED accessed
       ELSE \E st \in getStatus(agent_id) :
               IF st # "completed"
               THEN /\ lastTool' = <<"get_agent_result", "not_ready">>
                    /\ UNCHANGED accessed
               ELSE /\ lastTool' = <<"get_agent_result", "success">>
                    /\ accessed' = accessed \cup {ResultsResolved[agent_id]}
                                            \cup ArtifactCopies[agent_id]
    /\ UNCHANGED <<lifeVars, received, streamVars, toolVars, contextFiles,
                   wait, gateVars, reportVars, extVars>>

----------------------------------------------------------------------------
(* The search rate gate (ExaRateLimiter).  processQueue is followed from   *)
(* await to await; a timer fires at or after its due time.                 *)

\* the step of the clock
Quantum == minDelayMs \div 2

\* the errors a search call may throw: status (0: none), Retry-After
\* seconds (-1: no header), and the word its message holds
Errors ==
    [status : {429}, retryAfter : {-1, 0}, message : {"other"}]
    \cup [status : {0, 400, 503}, retryAfter : {-1},
          message : {"other", "network", "timeout"}]
    \cup [status : {503}, retryAfter : {2}, message : {"other"}]
    \cup [status : {0}, retryAfter : {-1}, message : {"rate limit"}]

\* a gate that takes every error for a retryable one
isRetryableErrorAny(error) == TRUE

isRetryableError(error) ==
    \/ error.status = 429
    \/ error.status >= 500 /\ error.status < 600
    \/ error.message \in {"rate limit", "network", "timeout", "econnreset",
                          "socket"}


getRetryDelay(retryCount_, error) ==
    IF error.status = 429 \/ error.message = "rate limit"
    THEN IF error.retryAfter # -1 THEN error.retryAfter * 1000
         ELSE 2000 * Pow2(retryCount_)
    ELSE 1000 * Pow2(retryCount_)

\* a gate that never waits for its slot
waitForNextSlotNone(sinceLast) == 0

\* the time waitForNextSlot sleeps (0: it returns at once)
waitForNextSlot(sinceLast) ==
    IF sinceLast < minDelayMs THEN minDelayMs - sinceLast ELSE 0

\* a loop that ends without clearing isProcessing
LoopHeadKeepsFlag(q) ==
    IF q = <<>>
    THEN /\ isProcessing' = TRUE
         /\ gatePc' = "idle"
         /\ timer' = 0
    ELSE /\ isProcessing' = TRUE
         /\ LET waitTime == waitForNextSlot(timeSinceLastRequest) IN
            IF waitTime > 0
            THEN gatePc' = "slot" /\ timer' = waitTime
            ELSE gatePc' = "ready" /\ timer' = 0

\* the head of processQueue's loop for queue q, up to its await
LoopHead(q) ==
    IF q = <<>>
    THEN /\ isProcessing' = FALSE
         /\ gatePc' = "idle"
         /\ timer' = 0
    ELSE /\ isProcessing' = TRUE
         /\ LET waitTime == waitForNextSlot(timeSinceLastRequest) IN
            IF waitTime > 0
            THEN gatePc' = "slot" /\ timer' = waitTime
            ELSE gatePc' = "ready" /\ timer' = 0

\* enqueue: push the item, and start processQueue unless it is running
Enqueue(i) ==
    /\ i \notin enqueued
    /\ enqueued' = enqueued \cup {i}
    /\ queue' = Append(queue, i)
    /\ IF ~isProcessing
       THEN LoopHead(queue')
       ELSE UNCHANGED <<isProcessing, gatePc, timer>>
    /\ UNCHANGED <<timeSinceLastRequest, current, itemRetryCount, dispatches,
                   resolves, rejects>>
    /\ UNCHANGED <<lifeVars, received, streamVars, toolVars, pathVars, wait,
                   reportVars, extVars>>

\* the timer of waitForNextSlot fires
SlotTimer ==
    /\ gatePc = "slot"
    /\ timer = 0
    /\ gatePc' = "ready"
    /\ UNCHANGED <<timeSinceLastRequest, queue, isProcessing, current, timer,
                   enqueued, itemRetryCount, dispatches, resolves, rejects>>
    /\ UNCHANGED <<lifeVars, received, streamVars, toolVars, pathVars, wait,
                   reportVars, extVars>>

\* processQueue shifts the head item, sets lastRequestTime to Date.now()
\* and calls the item's searchFn
Dispatch ==
    /\ gatePc = "ready"
    /\ current' = Head(queue)
    /\ queue' = Tail(queue)
    /\ timeSinceLastRequest' = 0
    /\ dispatches' = [dispatches EXCEPT ![Head(queue)] = @ + 1]
    /\ gatePc' = "flight"
    /\ UNCHANGED <<isProcessing, timer, enqueued, itemRetryCount, resolves,
                   rejects>>
    /\ UNCHANGED <<lifeVars, received, streamVars, toolVars, pathVars, wait,
                   reportVars, extVars>>

\* searchFn resolves
SearchResolves ==
    /\ gatePc = "flight"
    /\ resolves' = [resolves EXCEPT ![current] = @ + 1]
    /\ current' = 0
    /\ LoopHead(queue)
    /\ UNCHANGED <<timeSinceLastRequest, queue, enqueued, itemRetryCount,
                   dispatches, rejects>>
    /\ UNCHANGED <<lifeVars, received, streamVars, toolVars, pathVars, wait,
                   reportVars, extVars>>

\* searchFn rejects: back off for a retry, or reject the item
SearchRejects(error) ==
    /\ gatePc = "flight"
    /\ IF isRetryableError(error) /\ itemRetryCount[current] < defaultMaxRetries
       THEN /\ itemRetryCount' = [itemRetryCount EXCEPT ![current] = @ + 1]
            /\ gatePc' = "backoff"
            /\ timer' = getRetryDelay(itemRetryCount[current], error)
            /\ UNCHANGED <<current, isProcessing, rejects>>
       ELSE /\ rejects' = [rejects EXCEPT ![current] = @ + 1]
            /\ current' = 0
            /\ LoopHead(queue)
            /\ UNCHANGED itemRetryCount
    /\ UNCHANGED <<timeSinceLastRequest, queue, enqueued, dispatches, resolves>>
    /\ UNCHANGED <<lifeVars, received, streamVars, toolVars, pathVars, wait,
                   reportVars, extVars>>

\* the backoff timer fires: the item goes back to the front of the queue
BackoffTimer ==
    /\ gatePc = "backoff"
    /\ timer = 0
    /\ queue' = <<current>> \o queue
    /\ current' = 0
    /\ LoopHead(queue')
    /\ UNCHANGED <<timeSinceLastRequest, enqueued, itemRetryCount, dispatches,
                   resolves, rejects>>
    /\ UNCHANGED <<lifeVars, received, streamVars, toolVars, pathVars, wait,
                   reportVars, extVars>>

\* time passes, as far as the gate can tell: up to minDelayMs since the
\* last dispatch, and until the pending timer is due
Tick ==
    /\ timeSinceLastRequest < minDelayMs \/ timer > 0
    /\ timeSinceLastRequest' =
          IF timeSinceLastRequest + Quantum < minDelayMs
          THEN timeSinceLastRequest + Quantum ELSE minDelayMs
    /\ timer' = IF timer > Quantum THEN timer - Quantum ELSE 0
    /\ UNCHANGED <<queue, isProcessing, gatePc, current, enqueued,
                   itemRetryCount, dispatches, resolves, rejects>>
    /\ UNCHANGED <<lifeVars, received, streamVars, toolVars, pathVars, wait,
                   reportVars, extVars>>

----------------------------------------------------------------------------
(* write_report, called with an empty agent_results list: no artifacts     *)
(* folder is read.                                                         *)

\* what result.text of the report writer's generateText can be
ReportTexts == {"empty", "text"}

\* write_report up to `await generateText`
WriteReportCall ==
    /\ orchPc = "streaming"
    /\ ~orchAborted
    /\ report.pc = "idle"
    /\ report.calls < MaxReports
    /\ report' = [report EXCEPT !.pc = "generating", !.calls = @ + 1,
                                !.success = FALSE]
    /\ UNCHANGED <<lifeVars, received, streamVars, toolVars, pathVars, wait,
                   gateVars, extVars>>

\* the agent_results lists a write_report call may pass
ReportInputs == (SUBSET (1..MaxNamed)) \ {{}}

\* write_report with a list of agents, up to `await generateText`: the
\* findings of each listed agent are read from the artifacts folder, and the
\* error text stands in for a results.md that cannot be read
WriteReportFor(agent_results) ==
    /\ orchPc = "streaming"
    /\ ~orchAborted
    /\ report.pc = "idle"
    /\ report.calls < MaxReports
    /\ report' = [report EXCEPT
          !.pc = "generating", !.calls = @ + 1, !.success = FALSE,
          !.listed = agent_results,
          !.passed = [a \in AgentIds |->
                        IF a \notin agent_results THEN "none"
                        ELSE IF Exists(ArtifactResultsFile[a]) THEN "results"
                        ELSE "error"],
          !.completed = {a \in agent_results :
                           status[a] = "completed"
                              /\ statusFile[a] = "completed"}]
    /\ UNCHANGED <<lifeVars, received, streamVars, toolVars, pathVars, wait,
                   gateVars, extVars>>

\* generateText returns: the text is saved as final_report.md, the
\* orchestrator_step event is emitted and success is returned
WriteReportSaved(text) ==
    /\ report.pc = "generating"
    /\ report' = [report EXCEPT !.pc = "idle", !.success = TRUE,
                                !.file = text]
    /\ accessed' = accessed \cup {ReportPath}
    /\ lastTool' = <<"write_report", "success">>
    /\ Emit(<<OrchestratorStep>>)
    /\ UNCHANGED <<sessionStatus, storeStatus, orchVars, ctxVars, spawnVars,
                   agentVars, streamVars, toolVars, contextFiles, wait,
                   gateVars, extVars>>

\* generateText or fs.writeFile throws: the catch block returns the failure
WriteReportFailed ==
    /\ report.pc = "generating"
    /\ report' = [report EXCEPT !.pc = "idle", !.success = FALSE]
    /\ lastTool' = <<"write_report", "error">>
    /\ UNCHANGED <<lifeVars, received, streamVars, toolVars, contextFiles,
                   accessed, wait, gateVars, extVars>>

----------------------------------------------------------------------------
(* Plan tools of the orchestrator: generate_plan and update_plan *)

\* a step as the LLM supplies it: `id` is <<>> when absent; status and
\* agent_ids are left to their defaults
StepInputs == [id : {<<>>, <<"a">>}, description : {"x", "y"}]

RECURSIVE SeqsUpTo(_, _)
SeqsUpTo(S, n) ==
    IF n = 0 THEN {<<>>}
    ELSE LET shorter == SeqsUpTo(S, n - 1)
         IN  shorter \cup {Append(q, x) : q \in shorter, x \in S}

PlanInputs == SeqsUpTo(StepInputs, MaxPlanLen)

\* `step_${n}`
GeneratedId(n) == <<"step", n>>

\* steps.map(...) of update_plan: the i-th supplied step with its id, or the
\* next generated id, counter being this.stepCounter before the map
NewSteps(steps, counter) ==
    [i \in 1..Len(steps) |->
       [id |-> IF steps[i].id # <<>> THEN steps[i].id
               ELSE GeneratedId(counter
                      + Cardinality({j \in 1..i : steps[j].id = <<>>})),
        description |-> steps[i].description,
        status |-> "pending"]]

\* the counter after the map
CounterAfter(steps, counter) ==
    counter + Cardinality({j \in 1..Len(steps) : steps[j].id = <<>>})

\* Map.set(step.id, step): replace the entry of the key in place, or append
MapSet(m, step) ==
    IF \E i \in 1..Len(m) : m[i].id = step.id
    THEN [i \in 1..Len(m) |-> IF m[i].id = step.id THEN step ELSE m[i]]
    ELSE Append(m, step)

\* for (const step of planData.steps) ctx.planSteps.set(step.id, step)
RECURSIVE MapSetAll(_, _)
MapSetAll(m, steps) ==
    IF steps = <<>> THEN m
    ELSE MapSetAll(MapSet(m, Head(steps)), Tail(steps))

\* session.planSteps of the session store: created empty by createSession;
\* no statement of the program writes to it
sessionPlanSteps == <<>>

\* GET /api/status/:sessionId: Array.from(session.planSteps.values())
StatusPlanSteps == sessionPlanSteps

PlanUnchanged ==
    UNCHANGED <<lifeVars, received, streamVars, toolVars, pathVars, waitVars,
                gateVars, reportVars, backoff, recordVars, fetchVars, keyVars>>

\* generate_plan is called and awaits the planning model
GeneratePlanCall ==
    /\ plan.pc = "idle"
    /\ plan.calls < MaxPlanCalls
    /\ plan' = [plan EXCEPT !.pc = "generating", !.calls = @ + 1]
    /\ UNCHANGED <<planFile, planSteps, stepCounter>>
    /\ PlanUnchanged

\* the planning model answers: the plan file is overwritten with the
\* strategic perspective, an object without `steps`
GeneratePlanSaved ==
    /\ plan.pc = "generating"
    /\ planFile' = [hasSteps |-> FALSE, steps |-> <<>>]
    /\ plan' = [plan EXCEPT !.pc = "idle"]
    /\ UNCHANGED <<planSteps, stepCounter>>
    /\ PlanUnchanged

\* the planning model call throws: success false, the file is left alone
GeneratePlanFailed ==
    /\ plan.pc = "generating"
    /\ plan' = [plan EXCEPT !.pc = "idle"]
    /\ UNCHANGED <<planFile, planSteps, stepCounter>>
    /\ PlanUnchanged

\* update_plan is called and awaits fs.readFile of the plan file
UpdatePlanCall(steps, mode) ==
    /\ plan.pc = "idle"
    /\ plan.calls < MaxPlanCalls
    /\ plan' = [plan EXCEPT !.pc = "reading", !.calls = @ + 1,
                            !.mode = mode, !.steps = steps,
                            !.success = FALSE, !.totalSteps = 0]
    /\ UNCHANGED <<planFile, planSteps, stepCounter>>
    /\ PlanUnchanged

\* planData.steps after the mode's branch; push on a plan without `steps`
\* throws
canAppend(file) == file.hasSteps

\* the file is read: the steps are mapped (the counter advances); in append
\* mode on a file without `steps` push throws and the call returns failure;
\* otherwise fs.writeFile is awaited
UpdatePlanRead ==
    /\ plan.pc = "reading"
    /\ stepCounter' = CounterAfter(plan.steps, stepCounter)
    /\ IF plan.mode = "append" /\ ~canAppend(planFile)
       THEN /\ plan' = [plan EXCEPT !.pc = "idle", !.success = FALSE,
                                    !.totalSteps = 0,
                                    !.before = <<>>,
                                    !.counter = stepCounter]
            /\ UNCHANGED planFile
       ELSE /\ plan' = [plan EXCEPT !.pc = "writing",
                                    !.before = planFile.steps,
                                    !.counter = stepCounter]
            /\ planFile' =
                 [hasSteps |-> TRUE,
                  steps |-> IF plan.mode = "replace"
                            THEN NewSteps(plan.steps, stepCounter)
                            ELSE planFile.steps
                                   \o NewSteps(plan.steps, stepCounter)]
    /\ UNCHANGED planSteps
    /\ PlanUnchanged

\* writeFile resolves: ctx.planSteps is updated, plan_update is emitted, the
\* call returns success
UpdatePlanWritten ==
    /\ plan.pc = "writing"
    /\ planSteps' = MapSetAll(planSteps, planFile.steps)
    /\ Emit(<<PlanUpdate(planFile.steps)>>)
    /\ plan' = [plan EXCEPT !.pc = "idle", !.success = TRUE,
                            !.totalSteps = Len(planFile.steps)]
    /\ UNCHANGED <<planFile, stepCounter>>
    /\ UNCHANGED <<sessionStatus, storeStatus, orchVars, ctxVars, spawnVars,
                   agentVars, streamVars, toolVars, pathVars, waitVars,
                   gateVars, reportVars, backoff, recordVars, fetchVars, keyVars>>

\* writeFile rejects: the catch block returns failure
UpdatePlanWriteFails ==
    /\ plan.pc = "writing"
    /\ plan' = [plan EXCEPT !.pc = "idle", !.success = FALSE,
                            !.totalSteps = 0]
    /\ UNCHANGED <<planFile, planSteps, stepCounter>>
    /\ PlanUnchanged

----------------------------------------------------------------------------
(* ToolCall records.  The id of a tool call is the one the provider put in *)
(* its response; the ids of the calls of one step differ.                  *)

ProviderIds == {<<"p", n>> : n \in 1..MaxIds}

\* `${agentId}_tool_${agent.toolCalls.length + 1}`
GeneratedToolCallId(tc) == <<"tool", Len(tc) + 1>>

\* StateManager.addToolCall on the toolCalls list of an agent (externalId
\* <<>> when absent); `updates` counts the updateToolCall calls that reached
\* the record
addToolCall(tc, externalId) ==
    Append(tc, [id |-> IF externalId # <<>> THEN externalId
                       ELSE GeneratedToolCallId(tc),
                status |-> "executing", updates |-> 0])

\* agent.toolCalls.find(tc => tc.id === toolCallId): index of the first
\* record with the id, 0 when there is none
FindToolCall(tc, id) ==
    IF \E i \in 1..Len(tc) : tc[i].id = id
    THEN CHOOSE i \in 1..Len(tc) :
            /\ tc[i].id = id
            /\ \A j \in 1..(i - 1) : tc[j].id # id
    ELSE 0

\* StateManager.updateToolCall on the toolCalls list of an agent
updateToolCall(tc, id, st) ==
    IF FindToolCall(tc, id) = 0 THEN tc
    ELSE [tc EXCEPT ![FindToolCall(tc, id)] =
             [@ EXCEPT !.status = st, !.updates = @ + 1]]

\* the events of one updateToolCall
updateToolCallEvents(o, tc, id, st) ==
    IF FindToolCall(tc, id) = 0 THEN <<>> ELSE <<ToolResultEvent(o, st)>>

RecordsUnchanged ==
    UNCHANGED <<streamVars, toolVars, pathVars, waitVars, gateVars,
                reportVars, backoff, planVars, fetchVars, keyVars>>

\* onChunk, chunk.type 'tool-input-start': the call is recorded at once and
\* its id remembered
ToolInputStart(id) ==
    /\ orchPc = "streaming"
    /\ ~orchAborted
    /\ Len(toolCalls[OrchestratorId]) < MaxCalls
    /\ \A i \in 1..Len(stepCalls) : stepCalls[i] # id
    /\ toolCalls' = [toolCalls EXCEPT ![OrchestratorId] = addToolCall(@, id)]
    /\ toolCallsAddedByChunk' = toolCallsAddedByChunk \cup {id}
    /\ stepCalls' = Append(stepCalls, id)
    /\ Emit(<<ToolCallEvent(OrchestratorId)>>)
    /\ UNCHANGED <<sessionStatus, storeStatus, orchVars, ctxVars, spawnVars,
                   agentVars, executing>>
    /\ RecordsUnchanged

\* the step's response holds a tool call that no tool-input-start chunk
\* announced
ToolCallWithoutChunk(id) ==
    /\ orchPc = "streaming"
    /\ ~orchAborted
    /\ Len(toolCalls[OrchestratorId]) + Len(stepCalls) < MaxCalls
    /\ \A i \in 1..Len(stepCalls) : stepCalls[i] # id
    /\ stepCalls' = Append(stepCalls, id)
    /\ UNCHANGED <<lifeVars, received, toolCalls, toolCallsAddedByChunk,
                   executing>>
    /\ RecordsUnchanged

\* has onChunk recorded the call
alreadyAdded(added, id) == id \in added

\* toolCalls.forEach of onStepFinish: the list and the events after the
\* calls `calls`, those of `results` having a result
RECURSIVE TrackCalls(_, _, _, _)
TrackCalls(acc, calls, added, results) ==
    IF calls = <<>> THEN acc
    ELSE LET id == Head(calls)
             tc1 == IF alreadyAdded(added, id) THEN acc.tc
                    ELSE addToolCall(acc.tc, id)
             ev1 == IF alreadyAdded(added, id) THEN acc.ev
                    ELSE Append(acc.ev, ToolCallEvent(OrchestratorId))
             tc2 == IF id \in results
                    THEN updateToolCall(tc1, id, "completed") ELSE tc1
             ev2 == IF id \in results
                    THEN ev1 \o updateToolCallEvents(OrchestratorId, tc1, id,
                                                     "completed")
                    ELSE ev1
         IN  TrackCalls([tc |-> tc2, ev |-> ev2], Tail(calls), added, results)

\* onStepFinish of a step whose tool calls are stepCalls: the counters, the
\* orchestrator_step event when there are calls, and the records
OrchStepFinish ==
    /\ orchPc = "streaming"
    /\ ~orchAborted
    /\ orchestratorStepNumber < MaxRecordSteps
    /\ hasExecutedSteps' = TRUE
    /\ orchestratorStepNumber' = orchestratorStepNumber + 1
    /\ \E results \in SUBSET {stepCalls[i] : i \in 1..Len(stepCalls)} :
         LET first == [tc |-> toolCalls[OrchestratorId],
                       ev |-> IF stepCalls = <<>> THEN <<>>
                              ELSE <<OrchestratorStep>>]
             out == TrackCalls(first, stepCalls, toolCallsAddedByChunk,
                               results)
         IN  /\ toolCalls' = [toolCalls EXCEPT ![OrchestratorId] = out.tc]
             /\ Emit(out.ev)
    /\ stepCalls' = <<>>
    /\ UNCHANGED <<sessionStatus, storeStatus, orchPc, orchAborted,
                   orchestrators, ctxVars, spawnVars, agentVars,
                   toolCallsAddedByChunk, executing>>
    /\ RecordsUnchanged

\* emitToolStart, the first statement of a sub-agent tool's execute
EmitToolStart(a, id) ==
    /\ agentPc[a] = "run"
    /\ Len(toolCalls[a]) < MaxCalls
    /\ id \notin executing[a]
    /\ toolCalls' = [toolCalls EXCEPT ![a] = addToolCall(@, id)]
    /\ executing' = [executing EXCEPT ![a] = @ \cup {id}]
    /\ Emit(<<ToolCallEvent(a)>>)
    /\ UNCHANGED <<sessionStatus, storeStatus, orchVars, ctxVars, spawnVars,
                   agentVars, toolCallsAddedByChunk, stepCalls>>
    /\ RecordsUnchanged

\* emitToolEnd, called once on every return path of the tool's execute
EmitToolEnd(a, id, success) ==
    /\ id \in executing[a]
    /\ LET st == IF success THEN "completed" ELSE "failed"
       IN  /\ toolCalls' = [toolCalls EXCEPT ![a] = updateToolCall(@, id, st)]
           /\ Emit(updateToolCallEvents(a, toolCalls[a], id, st))
    /\ executing' = [executing EXCEPT ![a] = @ \ {id}]
    /\ UNCHANGED <<sessionStatus, storeStatus, orchVars, ctxVars, spawnVars,
                   agentVars, toolCallsAddedByChunk, stepCalls>>
    /\ RecordsUnchanged

\* the file tool's read, write or append of results.md throws: the three
\* awaits of that branch are outside the try block, so execute rejects
\* without calling emitToolEnd
FileToolThrows(a, id) ==
    /\ id \in executing[a]
    /\ executing' = [executing EXCEPT ![a] = @ \ {id}]
    /\ UNCHANGED <<lifeVars, received, toolCalls, toolCallsAddedByChunk,
                   stepCalls>>
    /\ RecordsUnchanged

----------------------------------------------------------------------------
(* GET /api/report/:sessionId.  The reads of the handler follow each other *)
(* with no other handler in between.                                       *)

\* the placeholder body
NoReportYet == <<"placeholder">>

\* names that end with .md
MarkdownNames ==
    {"notes.md", "final_report.md", "orchestrator_worklog.md", "results.md",
     "worklog.md"}

\* readdir(reportsDir) filtered: the files directly in the session
\* directory whose name ends with .md and is not orchestrator_worklog.md
markdownFiles ==
    {p \in SessionFiles \cup accessed :
        /\ PathDirname(p) = ResolvedSessionDir
        /\ PathBasename(p)[Len(PathBasename(p))] \in MarkdownNames
        /\ PathBasename(p) # <<"orchestrator_worklog.md">>}

\* the handler: final_report.md when it can be read, else the largest of
\* markdownFiles (the sizes are the files' own: any of them may be the
\* largest), else the placeholder
GetReport ==
    /\ IF Exists(ReportPath)
       THEN reportResponse' = <<"file", ReportPath>>
       ELSE IF markdownFiles = {}
       THEN reportResponse' = NoReportYet
       ELSE \E p \in markdownFiles : reportResponse' = <<"file", p>>
    /\ UNCHANGED <<lifeVars, received, streamVars, toolVars, pathVars,
                   waitVars, gateVars, reportVars, backoff, planVars,
                   recordVars, keyVars>>

----------------------------------------------------------------------------
(* API keys.  The keys of a request are written to process.env, which all  *)
(* sessions of the server share; the provider clients are built from       *)
(* process.env.  The three keys are written together and are followed as   *)
(* one: key s is the set of keys session s supplied.                       *)

KeysUnchanged ==
    UNCHANGED <<lifeVars, received, streamVars, toolVars, pathVars, waitVars,
                gateVars, reportVars, backoff, planVars, recordVars,
                fetchVars>>

\* POST /api/report: the StreamingOrchestrator constructor writes the keys
\* of the request to process.env and builds the orchestrator's client
CreateSession(s) ==
    /\ s \notin keys.created
    /\ LET env == s IN
       keys' = [keys EXCEPT !.env = env, !.created = @ \cup {s},
                            !.orchestrator[s] = env]
    /\ KeysUnchanged

\* spawn_agent: the StreamingSubAgent constructor builds the sub-agent's
\* OpenRouter and Exa clients from process.env
SpawnSubAgent(s) ==
    /\ s \in keys.created
    /\ keys.subagent[s] = <<>>
    /\ keys' = [keys EXCEPT !.subagent[s] = <<keys.env>>]
    /\ KeysUnchanged

\* a provider call of session s, made by `caller` with `key`
ProviderCall(s, caller, key) ==
    /\ keys.calls < MaxKeyCalls
    /\ keys' = [keys EXCEPT !.calls = @ + 1,
                            !.used = @ \cup {<<s, caller, key>>}]
    /\ KeysUnchanged

\* streamText of generateReport, with the client of the constructor
OrchestratorLlmCall(s) ==
    /\ s \in keys.created
    /\ ProviderCall(s, "orchestrator", keys.orchestrator[s])

\* generate_plan and write_report build a client from process.env in
\* execute
ToolLlmCall(s, caller) ==
    /\ s \in keys.created
    /\ ProviderCall(s, caller, keys.env)

\* the sub-agent's LLM run, the summarizer of web_search and the search
\* itself use the clients of the sub-agent's constructor
SubAgentCall(s, caller) ==
    /\ keys.subagent[s] # <<>>
    /\ ProviderCall(s, caller, keys.subagent[s][1])

----------------------------------------------------------------------------

Next ==
    \/ OrchStep
    \/ StreamEnd
    \/ StreamThrow
    \/ ReportResolved
    \/ ReportRejected
    \/ Abort
    \/ GraceExpires
    \/ \E s \in Subs : Subscribe(s)
    \/ \E s \in Subs : Close(s)
    \/ SpawnBegin
    \/ \E a \in AgentIds : SpawnRegister(a)
    \/ \E a \in AgentIds : AgentWriteResults(a)
    \/ \E a \in AgentIds : RunReturns(a)
    \/ \E a \in AgentIds : Validate(a)
    \/ \E a \in AgentIds : CompletedWritten(a)
    \/ \E a \in AgentIds : RunThrows(a)
    \/ \E a \in AgentIds : BackoffDone(a)
    \/ \E a \in AgentIds : FailedWritten(a)
    \/ \E a \in AgentIds : OnFulfilled(a)
    \/ \E a \in AgentIds : OnRejected(a)

Spec == Init /\ [][Next]_vars

----------------------------------------------------------------------------
(* Fan-out scenario: the orchestrator run alone produces the events, and   *)
(* MaxSubs connections attach and detach at any moment.                    *)

InitStream == InitLife(0, MaxSubs) /\ IdleTools /\ IdlePaths /\ IdleAux

NextStream ==
    \/ OrchStep
    \/ StreamEnd
    \/ StreamThrow
    \/ ReportResolved
    \/ ReportRejected
    \/ Abort
    \/ GraceExpires
    \/ \E s \in Subs : Subscribe(s)
    \/ \E s \in Subs : Close(s)

SpecStream == InitStream /\ [][NextStream]_vars

----------------------------------------------------------------------------
(* Spawn scenario: one orchestrator step issues more spawn_agent calls     *)
(* than the cap allows; the calls run concurrently.                        *)

InitSpawn == InitLife(MAX_AGENTS + SpawnExtra, 0) /\ IdleTools /\ IdlePaths /\ IdleAux

NextSpawn ==
    \/ SpawnBegin
    \/ SpawnReject
    \/ \E a \in AgentIds : SpawnRegister(a)

SpecSpawn == InitSpawn /\ [][NextSpawn]_vars

----------------------------------------------------------------------------
(* Budget scenario: one sub-agent is spawned and its LLM calls one tool,   *)
(* several calls to a step.  The tool_call and tool_result events of the   *)
(* calls are not followed here.                                            *)

InitTools ==
    /\ InitLife(MaxSpawn, 0)
    /\ toolInUse \in ToolNames
    /\ IdleCounters
    /\ IdlePaths
    /\ IdleAux

NextTools ==
    \/ SpawnBegin
    \/ \E a \in AgentIds : SpawnRegister(a)
    \/ \E t \in ToolNames : ToolStart(t)
    \/ \E t \in ToolNames : ToolReject(t)
    \/ \E t \in ToolNames, success \in BOOLEAN : ToolFinish(t, success)
    \/ \E outcome \in FileOutcomes : FileFinish(outcome)

SpecTools == InitTools /\ [][NextTools]_vars

----------------------------------------------------------------------------
(* Wait scenario: the orchestrator spawns agents and calls wait_for_agents *)
(* once while they run.                                                    *)

InitWait == InitLife(MaxNamed, 0) /\ IdleTools /\ IdlePaths /\ IdleAux

NextWait ==
    \/ SpawnBegin
    \/ \E a \in AgentIds : SpawnRegister(a)
    \/ \E a \in AgentIds : RunReturns(a)
    \/ \E a \in AgentIds : Validate(a)
    \/ \E a \in AgentIds : CompletedWritten(a)
    \/ \E a \in AgentIds : RunThrows(a)
    \/ \E a \in AgentIds : BackoffDone(a)
    \/ \E a \in AgentIds : FailedWritten(a)
    \/ \E a \in AgentIds : OnFulfilled(a)
    \/ \E a \in AgentIds : OnRejected(a)
    \/ \E ids \in WaitInputs : WaitCall(ids)
    \/ \E a \in AgentIds : WaitGetStatus(a)
    \/ WaitRoundEnd
    \/ \E elapsed \in BOOLEAN : WaitWake(elapsed)
    \/ \E a \in AgentIds : WaitFinalStatus(a)
    \/ WaitTimeoutReturn

SpecWait == InitWait /\ [][NextWait]_vars

----------------------------------------------------------------------------
(* Result scenario: the orchestrator spawns agents and calls               *)
(* get_agent_result at any moment of their runs.                           *)

InitResult == InitLife(MaxNamed, 0) /\ IdleTools /\ IdlePaths /\ IdleAux

NextResult ==
    \/ SpawnBegin
    \/ \E a \in AgentIds : SpawnRegister(a)
    \/ \E a \in AgentIds : RunReturns(a)
    \/ \E a \in AgentIds : Validate(a)
    \/ \E a \in AgentIds : CompletedWritten(a)
    \/ \E a \in AgentIds : RunThrows(a)
    \/ \E a \in AgentIds : BackoffDone(a)
    \/ \E a \in AgentIds : FailedWritten(a)
    \/ \E a \in AgentIds : OnFulfilled(a)
    \/ \E a \in AgentIds : OnRejected(a)
    \/ \E a \in 1..MaxNamed : GetAgentResult(a)

SpecResult == InitResult /\ [][NextResult]_vars

----------------------------------------------------------------------------
(* Rate-gate scenario: the web_search calls of the sub-agents hand their   *)
(* searches to the one gate.                                               *)

InitGate == InitLife(0, 0) /\ IdleTools /\ IdlePaths /\ IdleAux

NextGate ==
    \/ \E i \in Items : Enqueue(i)
    \/ SlotTimer
    \/ Dispatch
    \/ SearchResolves
    \/ \E error \in Errors : SearchRejects(error)
    \/ BackoffTimer
    \/ Tick

SpecGate == InitGate /\ [][NextGate]_vars

----------------------------------------------------------------------------
(* Report scenario: the orchestrator run, without sub-agents, calls        *)
(* write_report.                                                           *)

InitReport == InitLife(0, 1) /\ IdleTools /\ IdlePaths /\ IdleAux

NextReport ==
    \/ OrchStep
    \/ StreamEnd
    \/ StreamThrow
    \/ ReportResolved
    \/ ReportRejected
    \/ Abort
    \/ GraceExpires
    \/ \E s \in Subs : Subscribe(s)
    \/ \E s \in Subs : Close(s)
    \/ WriteReportCall
    \/ \E text \in ReportTexts : WriteReportSaved(text)
    \/ WriteReportFailed

SpecReport == InitReport /\ [][NextReport]_vars

----------------------------------------------------------------------------
(* Cancel scenario: the session run with its sub-agents, and MaxSubs       *)
(* connections whose disconnect timers ask for the abort.                  *)

InitCancel == InitLife(MaxSpawn, MaxSubs) /\ IdleTools /\ IdlePaths /\ IdleAux

NextCancel ==
    \/ OrchStep
    \/ StreamEnd
    \/ StreamThrow
    \/ ReportResolved
    \/ ReportRejected
    \/ Abort
    \/ GraceExpires
    \/ \E s \in Subs : Subscribe(s)
    \/ \E s \in Subs : Close(s)
    \/ SpawnBegin
    \/ \E a \in AgentIds : SpawnRegister(a)
    \/ \E a \in AgentIds : RunReturns(a)
    \/ \E a \in AgentIds : Validate(a)
    \/ \E a \in AgentIds : CompletedWritten(a)
    \/ \E a \in AgentIds : OnFulfilled(a)

SpecCancel == InitCancel /\ [][NextCancel]_vars

----------------------------------------------------------------------------
(* Retry scenario: spawned sub-agents whose LLM runs return or throw.      *)

InitRetry == InitLife(MaxSpawn, 0) /\ IdleTools /\ IdlePaths /\ IdleAux

NextRetry ==
    \/ SpawnBegin
    \/ \E a \in AgentIds : SpawnRegister(a)
    \/ \E a \in AgentIds : AgentWriteResults(a)
    \/ \E a \in AgentIds : RunReturns(a)
    \/ \E a \in AgentIds : Validate(a)
    \/ \E a \in AgentIds : CompletedWritten(a)
    \/ \E a \in AgentIds : RunThrows(a)
    \/ \E a \in AgentIds : BackoffDone(a)
    \/ \E a \in AgentIds : FailedWritten(a)
    \/ \E a \in AgentIds : OnFulfilled(a)
    \/ \E a \in AgentIds : OnRejected(a)

SpecRetry == InitRetry /\ [][NextRetry]_vars

----------------------------------------------------------------------------
(* Plan scenario: the orchestrator calls generate_plan and update_plan,    *)
(* one call at a time.                                                     *)

InitPlan == InitLife(0, 0) /\ IdleTools /\ IdlePaths /\ IdleAux

NextPlan ==
    \/ GeneratePlanCall
    \/ GeneratePlanSaved
    \/ GeneratePlanFailed
    \/ \E steps \in PlanInputs, mode \in {"replace", "append"} :
          UpdatePlanCall(steps, mode)
    \/ UpdatePlanRead
    \/ UpdatePlanWritten
    \/ UpdatePlanWriteFails

SpecPlan == InitPlan /\ [][NextPlan]_vars

----------------------------------------------------------------------------
(* ToolCall-record scenario of the orchestrator: the tool calls of its     *)
(* steps, announced by a chunk or not, are recorded in the session store.  *)

InitRecords == InitLife(0, 0) /\ IdleTools /\ IdlePaths /\ IdleAux

NextRecords ==
    \/ \E id \in ProviderIds : ToolInputStart(id)
    \/ \E id \in ProviderIds : ToolCallWithoutChunk(id)
    \/ OrchStepFinish

SpecRecords == InitRecords /\ [][NextRecords]_vars

----------------------------------------------------------------------------
(* ToolCall-record scenario of the sub-agents: the tool executions of      *)
(* their LLM runs are recorded in the session store.  The runs are         *)
(* followed up to their failures and re-runs.                              *)

InitAgentRecords == InitLife(MaxSpawn, 0) /\ IdleTools /\ IdlePaths /\ IdleAux

NextAgentRecords ==
    \/ SpawnBegin
    \/ \E a \in AgentIds : SpawnRegister(a)
    \/ \E a \in AgentIds : RunThrows(a)
    \/ \E a \in AgentIds : BackoffDone(a)
    \/ \E a \in AgentIds, id \in ProviderIds : EmitToolStart(a, id)
    \/ \E a \in AgentIds, id \in ProviderIds, success \in BOOLEAN :
          EmitToolEnd(a, id, success)
    \/ \E a \in AgentIds, id \in ProviderIds : FileToolThrows(a, id)

SpecAgentRecords == InitAgentRecords /\ [][NextAgentRecords]_vars

----------------------------------------------------------------------------
(* Report-fetch scenario: the orchestrator run, without sub-agents, writes *)
(* files with its file tool and calls write_report, and a client asks for  *)
(* the report at any moment.                                               *)

InitFetch == InitLife(0, 0) /\ IdleTools /\ IdlePaths /\ IdleAux

NextFetch ==
    \/ OrchStep
    \/ StreamEnd
    \/ StreamThrow
    \/ ReportResolved
    \/ ReportRejected
    \/ \E f \in PathInputs, op \in PathOps : OrchFile(f, op)
    \/ WriteReportCall
    \/ \E text \in ReportTexts : WriteReportSaved(text)
    \/ WriteReportFailed
    \/ GetReport

SpecFetch == InitFetch /\ [][NextFetch]_vars

----------------------------------------------------------------------------
(* Quota scenario: the orchestrator spawns one agent more than the cap,    *)
(* issuing a spawn_agent call only while fewer than MaxOverlap sub-agents  *)
(* are at work; the LLM runs of the sub-agents return without writing.     *)

InitQuota == InitLife(MAX_AGENTS + 1, 0) /\ IdleTools /\ IdlePaths /\ IdleAux

NextQuota ==
    \/ /\ Cardinality({a \in AgentIds : agentPc[a] \notin {"none", "end"}})
             < MaxOverlap
       /\ SpawnBegin
    \/ SpawnReject
    \/ \E a \in AgentIds : SpawnRegister(a)
    \/ \E a \in AgentIds : RunReturns(a)
    \/ \E a \in AgentIds : Validate(a)
    \/ \E a \in AgentIds : CompletedWritten(a)
    \/ \E a \in AgentIds : OnFulfilled(a)

SpecQuota == InitQuota /\ [][NextQuota]_vars

----------------------------------------------------------------------------
(* Run scenario: the orchestrator run from its start to its end, with the  *)
(* tools whose execution streamText awaits: spawn_agent, wait_for_agents   *)
(* and write_report.  The text stream ends only when the tool calls of the *)
(* last step have returned; it may throw at any moment.                    *)

InitLive == InitLife(MaxSpawn, 0) /\ IdleTools /\ IdlePaths /\ IdleAux

\* no tool call of the orchestrator is executing
ToolsReturned ==
    /\ wait.pc \in {"idle", "returned"}
    /\ report.pc = "idle"
    /\ \A a \in AgentIds : agentPc[a] # "mkdir"

\* the steps of a wait_for_agents call: file reads and the poll timer
WaitSteps ==
    \/ \E a \in AgentIds : WaitGetStatus(a)
    \/ WaitRoundEnd
    \/ \E elapsed \in BOOLEAN : WaitWake(elapsed)
    \/ \E a \in AgentIds : WaitFinalStatus(a)
    \/ WaitTimeoutReturn

NextLive ==
    \/ OrchStep
    \/ ToolsReturned /\ StreamEnd
    \/ StreamThrow
    \/ ReportResolved
    \/ ReportRejected
    \/ SpawnBegin
    \/ \E a \in AgentIds : SpawnRegister(a)
    \/ \E a \in AgentIds : RunReturns(a)
    \/ \E a \in AgentIds : Validate(a)
    \/ \E a \in AgentIds : CompletedWritten(a)
    \/ \E a \in AgentIds : RunThrows(a)
    \/ \E a \in AgentIds : BackoffDone(a)
    \/ \E a \in AgentIds : FailedWritten(a)
    \/ \E a \in AgentIds : OnFulfilled(a)
    \/ \E a \in AgentIds : OnRejected(a)
    \/ \E ids \in WaitInputs : WaitCall(ids)
    \/ WaitSteps
    \/ WriteReportCall
    \/ \E text \in ReportTexts : WriteReportSaved(text)
    \/ WriteReportFailed

SpecLive == InitLive /\ [][NextLive]_vars

\* every provider call returns or fails: the orchestrator's LLM stream once
\* its tool calls have returned, the file system and the timers of
\* wait_for_agents, mkdir, the report writer, and logResearchSession.  The
\* sub-agents' LLM runs are not required to end.
FairLive ==
    /\ SpecLive
    /\ WF_vars(ToolsReturned /\ (StreamEnd \/ StreamThrow))
    /\ WF_vars(WaitSteps)
    /\ WF_vars(\E a \in AgentIds : SpawnRegister(a))
    /\ WF_vars((\E text \in ReportTexts : WriteReportSaved(text))
                  \/ WriteReportFailed)
    /\ WF_vars(ReportResolved \/ ReportRejected)

----------------------------------------------------------------------------
(* Task scenario: executeTask of the spawned sub-agents up to its return   *)
(* or throw, with every LLM run returning or throwing, the timer of the    *)
(* backoff firing and the writes of status.json returning.                 *)

InitTask == InitLife(MaxSpawn, 0) /\ IdleTools /\ IdlePaths /\ IdleAux

ExecuteTaskStep(a) ==
    \/ RunReturns(a) \/ RunThrows(a)
    \/ Validate(a)
    \/ BackoffDone(a)
    \/ CompletedWritten(a) \/ FailedWritten(a)

NextTask ==
    \/ SpawnBegin
    \/ \E a \in AgentIds : SpawnRegister(a)
    \/ \E a \in AgentIds : AgentWriteResults(a)
    \/ \E a \in AgentIds : ExecuteTaskStep(a)

SpecTask == InitTask /\ [][NextTask]_vars

FairTask ==
    /\ SpecTask
    /\ \A a \in 1..MaxSpawn : WF_vars(ExecuteTaskStep(a))

----------------------------------------------------------------------------
(* The rate-gate scenario with every search call returning or failing and  *)
(* every timer of processQueue firing.                                     *)

FairGate ==
    /\ SpecGate
    /\ WF_vars(Tick)
    /\ WF_vars(SlotTimer)
    /\ WF_vars(Dispatch)
    /\ WF_vars(SearchResolves \/ \E error \in Errors : SearchRejects(error))
    /\ WF_vars(BackoffTimer)

----------------------------------------------------------------------------
(* Findings scenario: the orchestrator spawns a sub-agent, may fetch its   *)
(* result with get_agent_result, and calls write_report with a list of     *)
(* agents.                                                                 *)

InitFindings == InitLife(MaxSpawn, 0) /\ IdleTools /\ IdlePaths /\ IdleAux

NextFindings ==
    \/ SpawnBegin
    \/ \E a \in AgentIds : SpawnRegister(a)
    \/ \E a \in AgentIds : AgentWriteResults(a)
    \/ \E a \in AgentIds : RunReturns(a)
    \/ \E a \in AgentIds : Validate(a)
    \/ \E a \in AgentIds : CompletedWritten(a)
    \/ \E a \in AgentIds : OnFulfilled(a)
    \/ \E a \in 1..MaxNamed : GetAgentResult(a)
    \/ \E ids \in ReportInputs : WriteReportFor(ids)
    \/ \E text \in ReportTexts : WriteReportSaved(text)
    \/ WriteReportFailed

SpecFindings == InitFindings /\ [][NextFindings]_vars

----------------------------------------------------------------------------
(* API-key scenario: sessions are created on the one server, each with its *)
(* own keys, and make provider calls while the others are created.         *)

InitKeys == InitLife(0, 0) /\ IdleTools /\ IdlePaths /\ IdleAux

NextKeys ==
    \/ \E s \in Sessions : CreateSession(s)
    \/ \E s \in Sessions : SpawnSubAgent(s)
    \/ \E s \in Sessions : OrchestratorLlmCall(s)
    \/ \E s \in Sessions, caller \in {"planner", "report_writer"} :
          ToolLlmCall(s, caller)
    \/ \E s \in Sessions, caller \in {"subagent", "summarizer", "search"} :
          SubAgentCall(s, caller)

SpecKeys == InitKeys /\ [][NextKeys]_vars

----------------------------------------------------------------------------
(* Path scenario: the orchestrator and one sub-agent call the tools that   *)
(* take a path, with the paths of PathInputs.                              *)

InitPaths ==
    /\ InitLife(MaxSpawn, 0)
    /\ IdleTools
    /\ contextFiles \in {{}} \cup {{f} : f \in PathInputs}
    /\ NoAccess
    /\ IdleAux

NextPaths ==
    \/ SpawnBegin
    \/ \E a \in AgentIds : SpawnRegister(a)
    \/ \E a \in AgentIds : AgentWriteResults(a)
    \/ \E f \in PathInputs, op \in PathOps : OrchFile(f, op)
    \/ \E f \in PathInputs : OrchViewImage(f)
    \/ \E a \in AgentIds, f \in PathInputs : SubViewImage(a, f)
    \/ \E a \in AgentIds, f \in SubFileInputs, op \in PathOps : SubFile(a, f, op)
    \/ \E a \in AgentIds, f \in SubFileInputs : SubFileInvalid(a, f)

SpecPaths == InitPaths /\ [][NextPaths]_vars

----------------------------------------------------------------------------
(* Claims *)

\* C1: for every sub-agent, the status in the session store and the status
\* the sub-agent itself holds only move forward along
\* pending -> running -> {completed | failed}; a terminal status never
\* changes, also when the agent is aborted while running.
C1_StatusOnlyForward ==
    [][LET Rank(s) == CASE s = "none" -> 0
                        [] s = "pending" -> 1
                        [] s = "running" -> 2
                        [] OTHER -> 3
           Forward(s, t) == s = t \/ Rank(s) < Rank(t)
       IN  \A a \in AgentIds : /\ Forward(storeStatus[a], storeStatus'[a])
                                /\ Forward(status[a], status'[a])]_vars

\* C2: once the session status is completed or failed, no later action
\* changes it.
C2_SessionTerminalStable ==
    [][(sessionStatus \in Terminal) => (sessionStatus' = sessionStatus)]_vars

\* C3: once the session is terminal and its final event is in the log, no
\* further event is appended to the log.
C3_NoEventAfterTerminal ==
    [][(sessionStatus \in Terminal) => (events' = events)]_vars

\* C4: a connection, whenever it attached, has received the connected frame
\* and then the frame of every event of the log, in log order, each exactly
\* once; a closed connection has received a prefix of that.
C4_SubscriberSeesLog ==
    LET Stream == <<ConnectedFrame>> \o Frames(events)
        IsPrefix(a, b) == Len(a) <= Len(b) /\ SubSeq(b, 1, Len(a)) = a
    IN  \A s \in Subs :
            /\ connState[s] = "open" => received[s] = Stream
            /\ connState[s] = "closed" => IsPrefix(received[s], Stream)

\* two connections attached late, at different moments, and events followed
C4_Witness ==
    \E s1, s2 \in Subs :
        /\ connState[s1] = "open" /\ connState[s2] = "open"
        /\ attachedAt[s1] >= 2
        /\ attachedAt[s2] > attachedAt[s1]
        /\ Len(events) > attachedAt[s2]

\* C5: a sub-agent is completed (by its own status or in the store) only if
\* its results file is valid; with an invalid file after the third attempt
\* it is failed instead.
C5_CompletedOnlyIfValid ==
    \A a \in AgentIds :
        (status[a] = "completed" \/ storeStatus[a] = "completed")
            => validateResults(resultsFile[a])

\* C6: a sub-agent never executes more web_search, code_interpreter or
\* view_image calls than the tool's budget, also when several calls of one
\* step run concurrently.
C6_BudgetNeverExceeded ==
    \A t \in {"web_search", "code_interpreter", "view_image"} :
        executed[t] <= TOOL_CALL_LIMITS[t]

\* C7: a sub-agent performs at most 15 successful file-tool operations.
C7_FileSuccessesBounded == succeeded["file"] <= TOOL_CALL_LIMITS["file"]

\* C8: the sub-agents created in a session never exceed the cap, in the
\* orchestrator's map, in the session store and by the ids handed out.
C8_AgentCap ==
    /\ Cardinality(agents) <= MAX_AGENTS
    /\ Cardinality({a \in AgentIds : storeStatus[a] # "none"}) <= MAX_AGENTS
    /\ agentCounter <= MAX_AGENTS

\* C9: after a cancel, every sub-agent that was running at that moment ends
\* failed, in the store and by its own status, with an agent_failed event in
\* the log, and the session ends failed.
C9_CancelledEndsFailed ==
    /\ \A a \in AgentIds :
          (aborted[a] /\ agentPc[a] = "end") =>
              /\ storeStatus[a] = "failed"
              /\ status[a] = "failed"
              /\ \E i \in 1..Len(events) : events[i] = AgentFailed(a)
    /\ (orchAborted /\ orchPc = "done") => sessionStatus = "failed"

\* C11: a sub-agent file call whose path is not the agent's own results.md
\* or worklog.md answers FILE_ACCESS_DENIED and touches no file.
C11_OtherPathDenied ==
    [][\A a \in AgentIds, f \in SubFileInputs \ FileSchemaPaths :
          ((\E op \in PathOps : SubFile(a, f, op)) \/ SubFileInvalid(a, f))
              => /\ lastTool' = <<"file", "FILE_ACCESS_DENIED">>
                 /\ accessed' = accessed]_vars

\* C12 (as stated): wait_for_agents returns success=true only when every
\* named agent is terminal, and it does not return before the timeout while
\* some named agent is not terminal.
C12_NoEarlyReturn ==
    /\ wait.success => \A a \in wait.agent_ids : status[a] \in Terminal
    /\ (wait.pc = "returned" /\ wait.error # "Timeout waiting for agents")
          => \A a \in wait.agent_ids : status[a] \in Terminal

\* C12 (amended): when every named id is a registered agent, wait_for_agents
\* returns success=true exactly when a polling round before the timeout saw
\* every named agent completed or failed: success implies that every named
\* agent is terminal, a round that does not return success saw a
\* non-terminal agent, and a return without the timeout is a success.
C12_SuccessIffAllTerminal ==
    /\ wait.success
          => \A a \in wait.agent_ids :
                status[a] \in Terminal /\ wait.seen[a] \in Terminal
    /\ wait.pc = "sleep"
          => \E a \in wait.agent_ids : wait.seen[a] \notin Terminal
    /\ (wait.pc = "returned" /\ wait.error = "none") => wait.success
    /\ (wait.pc = "returned" /\ wait.error = "Timeout waiting for agents")
          => ~wait.success

\* a call naming two agents returns success after a second polling round
C12_Witness ==
    /\ wait.pc = "returned"
    /\ wait.success
    /\ Cardinality(wait.agent_ids) = 2
    /\ wait.polls >= 1

\* C13: when wait_for_agents times out it returns success=false and the
\* status it reports for each named agent is the status getStatus gave for
\* that agent (running for an agent that is still running).
C13_TimeoutReportsLastStatus ==
    (wait.pc = "returned" /\ wait.error = "Timeout waiting for agents")
        => /\ ~wait.success
           /\ \A a \in wait.agent_ids : wait.statuses[a] = wait.seen[a]

\* C14: get_agent_result answers not_ready for a registered agent exactly
\* when that agent has not reached a terminal status: a not_ready answer
\* means the agent is not yet completed or failed, and any other answer
\* means it is.
C14_NotReadyIffNotTerminal ==
    [][\A a \in 1..MaxNamed :
          (GetAgentResult(a) /\ a \in agents)
              => /\ lastTool'[2] = "not_ready"
                    => ~(status[a] \in Terminal /\ statusFile[a] \in Terminal)
                 /\ lastTool'[2] # "not_ready"
                    => (status[a] \in Terminal \/ statusFile[a] \in Terminal)]_vars

\* C15: the rate gate has at most one search call in flight (while a call
\* is pending or a timer of processQueue is set the gate is marked as
\* processing, so no second processQueue starts), and every dispatch,
\* first or repeated, comes at least minDelayMs after the previous one.
C15_SerialAndSpaced ==
    [][/\ gatePc' # "idle" => isProcessing'
       /\ Dispatch => /\ gatePc # "flight"
                      /\ current = 0
                      /\ timeSinceLastRequest >= minDelayMs]_vars

\* two items are queued together, and one of them is dispatched again
\* after a failure
C15_Witness ==
    /\ gatePc = "flight"
    /\ \E i \in Items : dispatches[i] >= 2
    /\ \A i \in Items : dispatches[i] >= 1

\* C16: a failed item goes back for another dispatch only if its error is
\* retryable (HTTP 429, 5xx, or a rate-limit, network or timeout message)
\* and it has been retried fewer than 3 times; otherwise the item is
\* rejected with the error and never dispatched again.  An item is
\* dispatched at most 4 times and is settled at most once, so an item that
\* fails three times and then succeeds gives its caller one success.
C16_RetryOnlyRetryable ==
    [][/\ \A error \in Errors :
             SearchRejects(error) =>
                LET retryable == \/ error.status = 429
                                 \/ error.status \in 500..599
                                 \/ error.message \in
                                       {"rate limit", "network", "timeout"}
                IN  IF retryable /\ itemRetryCount[current] < 3
                    THEN /\ gatePc' = "backoff"
                         /\ rejects' = rejects
                    ELSE /\ rejects'[current] = rejects[current] + 1
                         /\ current' # current
                         /\ \A k \in 1..Len(queue') : queue'[k] # current
       /\ \A i \in Items :
             /\ dispatches'[i] <= 4
             /\ resolves'[i] + rejects'[i] <= 1
             /\ resolves[i] + rejects[i] > 0 => dispatches'[i] = dispatches[i]
             /\ (SearchResolves /\ current = i) => resolves'[i] = 1]_vars

\* an item has failed three times, was dispatched a fourth time and
\* succeeded
C16_Witness ==
    \E i \in Items :
        /\ dispatches[i] = 4
        /\ itemRetryCount[i] = 3
        /\ resolves[i] = 1
        /\ rejects[i] = 0

\* C17: the tool a sub-agent uses is blocked for consecutive failures
\* exactly when its three most recent returned calls all failed, and a
\* successful call of the tool, a successful file operation included,
\* leaves the tool's consecutive-failure count at zero.
C17_BlockedIffThreeFailures ==
    [][/\ (consecutiveToolFailures'[toolInUse] >= MAX_CONSECUTIVE_FAILURES)
             <=> (/\ Len(recent') = 3
                  /\ \A k \in 1..3 : ~recent'[k])
       /\ (FileFinish("success") \/ \E t \in ToolNames : ToolFinish(t, TRUE))
             => consecutiveToolFailures'[toolInUse] = 0]_vars

\* C18: once the orchestrator's LLM run is over with no step executed,
\* the session is failed, its log holds an error event, and the log holds
\* no change of the session to completed.
C18_ZeroStepsFails ==
    (orchPc # "streaming" /\ ~hasExecutedSteps /\ orchestratorStepNumber = 0)
        => /\ sessionStatus = "failed"
           /\ \E k \in 1..Len(events) : events[k] = OrchestratorError
           /\ \A k \in 1..Len(events) :
                 events[k] # SessionStatusChange("completed")

\* the text stream ended without a step and without an abort: generateReport
\* reported the failure, its catch block again, and the request handler
C18_Witness ==
    /\ orchPc = "done"
    /\ ~hasExecutedSteps
    /\ ~orchAborted
    /\ Len(SelectSeq(events, LAMBDA e : e = OrchestratorError)) = 3

\* C19: whenever a write_report call has returned success, final_report.md
\* exists in the session directory and is not empty.
C19_ReportSavedNonEmpty ==
    [][\A text \in ReportTexts :
          WriteReportSaved(text)
              => /\ report'.success
                 /\ ReportPath \in accessed'
                 /\ StartsWith(ReportPath, ResolvedSessionDir)
                 /\ report'.file = "text"]_vars

\* C20: when the session is completed or failed, every connected
\* subscriber has received the terminal event, and once the server has
\* nothing left to do for the session (the run is over, no disconnect
\* timer is pending) the stream of a subscriber that was connected when the
\* terminal event came is no longer open.
C20_StreamEndsAfterTerminal ==
    \A s \in Subs :
        /\ (sessionStatus \in Terminal /\ connState[s] = "open")
              => \E k \in 1..Len(received[s]) :
                    received[s][k] = Frame(SessionStatusChange(sessionStatus))
        /\ (/\ sessionStatus \in Terminal
            /\ orchPc = "done"
            /\ graceTimers = 0
            /\ \A k \in 1..attachedAt[s] :
                  \A st \in Terminal : events[k] # SessionStatusChange(st)
            /\ \E k \in (attachedAt[s] + 1)..Len(events) :
                  events[k] = SessionStatusChange(sessionStatus))
              => connState[s] # "open"

\* C21: a cancel request (a disconnect timer firing) on a session that is
\* already terminal or was already cancelled leaves the session status, the
\* agent statuses and the event log as they were.
C21_CancelIdempotent ==
    [][(/\ graceTimers' = graceTimers - 1
        /\ (sessionStatus \notin InProgressStatuses \/ orchAborted))
       => UNCHANGED <<sessionStatus, status, events>>]_vars

\* a subscriber attached after the abort, left again, and its timer has fired
C21_Witness ==
    /\ orchAborted
    /\ graceTimers = 0
    /\ Len(events) > 0
    /\ events[Len(events)] = OrchestratorError
    /\ \E s \in Subs : connState[s] = "closed" /\ attachedAt[s] = Len(events)

\* C22: the disconnect abort happens only on a session that is still in
\* progress and only when no connection has been open at any time since the
\* timer that aborts was scheduled (its whole grace period).
C22_AbortOnlyAfterQuietGrace ==
    [][(orchAborted' /\ ~orchAborted)
       => (/\ sessionStatus \in InProgressStatuses
           /\ ~Head(graceSeen))]_vars

\* C23: a sub-agent's LLM run fails at most MAX_ATTEMPTS times, and the wait
\* scheduled after its k-th failed LLM run is base * 2^(k-1), base being
\* 5000 ms for a rate-limit error and 2000 ms otherwise.
C23_BackoffByFailedCalls ==
    [][\A a \in AgentIds :
         /\ backoff'[a].failures <= MAX_ATTEMPTS
         /\ (agentPc[a] = "run" /\ agentPc'[a] = "backoff")
              => backoff'[a].delay =
                   (IF backoff'[a].isRateLimit THEN 5000 ELSE 2000)
                     * Pow2(backoff'[a].failures - 1)]_vars

\* C24: the delay scheduled before an item's k-th retry is the error's
\* Retry-After value when the error carries one, and otherwise
\* 2000 ms * 2^(k-1) for a rate-limit error and 1000 ms * 2^(k-1) for any
\* other retryable error.
C24_RetryDelay ==
    [][\A e \in Errors :
         (SearchRejects(e) /\ gatePc' = "backoff")
         => timer' =
              (IF e.retryAfter # -1 THEN e.retryAfter * 1000
               ELSE IF e.status = 429 \/ e.message = "rate limit"
                    THEN 2000 * Pow2(itemRetryCount'[current] - 1)
                    ELSE 1000 * Pow2(itemRetryCount'[current] - 1))]_vars

\* C25: every update_plan call returns success, leaves in the plan file
\* exactly the supplied steps (replace) or the steps it had followed by the
\* supplied ones (append), and appends one plan_update event carrying the
\* steps of the file, whatever plan tool ran before (the file system
\* serving the write).
C25_UpdatePlanSetsSteps ==
    [][(/\ plan.pc \in {"reading", "writing"}
        /\ plan'.pc = "idle"
        /\ ~UpdatePlanWriteFails)
       => /\ plan'.success
          /\ planFile'.hasSteps
          /\ planFile'.steps =
                (IF plan'.mode = "replace" THEN <<>> ELSE plan'.before)
                  \o NewSteps(plan'.steps, plan'.counter)
          /\ events' = Append(events, PlanUpdate(planFile'.steps))]_vars

\* C29: after a successful update_plan the plan steps of the session store,
\* which Status returns, are the steps of the plan file.
C29_StatusShowsPlan ==
    (plan.pc = "idle" /\ plan.mode # "-" /\ plan.success)
    => StatusPlanSteps = planFile.steps

\* C26: a ToolCall record is updated at most once (from executing to
\* completed or failed), so at most one tool_result is emitted for it.
C26_UpdatedAtMostOnce ==
    \A o \in Owners : \A i \in 1..Len(toolCalls[o]) :
        /\ toolCalls[o][i].updates <= 1
        /\ toolCalls[o][i].updates = 0 <=> toolCalls[o][i].status = "executing"

\* C27: within one agent no two ToolCall records have the same id.
C27_ToolCallIdsUnique ==
    \A o \in Owners : \A i, j \in 1..Len(toolCalls[o]) :
        i # j => toolCalls[o][i].id # toolCalls[o][j].id

\* C28: every event that enters the log is the event of a mutation of the
\* session store made in the same step: a status event shows the status the
\* store now holds, agent_spawned a new agent, orchestrator_step a new
\* current step; no event of another kind is appended (the tool_call and
\* tool_result events are not judged).
C28_EventsOnlyWithMutation ==
    [][\A i \in (Len(events) + 1)..Len(events') :
         LET e == events'[i]
         IN  CASE e.type = "session_status_change" -> sessionStatus' = e.status
               [] e.type = "agent_spawned" ->
                    storeStatus[e.agentId] = "none"
                    /\ storeStatus'[e.agentId] # "none"
               [] e.type = "agent_status_change" ->
                    storeStatus'[e.agentId] = e.status
               [] e.type = "orchestrator_step" ->
                    orchestratorStepNumber' # orchestratorStepNumber
               [] e.type \in {"tool_call", "tool_result"} -> TRUE
               [] OTHER -> FALSE]_vars

\* C30: Report answers with final_report.md when it exists; when it does
\* not, with a non-worklog markdown file of the session directory only if
\* the session has completed, and with the placeholder otherwise.
C30_ReportBody ==
    [][GetReport
       => IF Exists(ReportPath)
          THEN reportResponse' = <<"file", ReportPath>>
          ELSE IF sessionStatus = "completed" /\ markdownFiles # {}
          THEN reportResponse'[1] = "file" /\ reportResponse'[2] \in markdownFiles
          ELSE reportResponse' = NoReportYet]_vars

\* C31: spawn_agent is refused only while MAX_AGENTS sub-agents of the
\* session are not yet in a terminal status; with fewer at work it succeeds,
\* whatever the number of sub-agents spawned before.
C31_CapCountsRunningAgents ==
    [][SpawnReject
       => Cardinality({a \in AgentIds :
                         storeStatus[a] \notin Terminal \cup {"none"}})
            >= MAX_AGENTS]_vars

\* C32: a session whose orchestrator run has started eventually has the
\* status completed or failed, when every provider call returns or fails.
C32_SessionEnds == <>(sessionStatus \in Terminal)

\* the run ended completed after a wait_for_agents call that timed out on
\* a sub-agent still at work
C32_Witness ==
    /\ sessionStatus = "completed"
    /\ orchPc = "done"
    /\ wait.pc = "returned" /\ ~wait.success /\ wait.polls > 0
    /\ \E a \in wait.agent_ids : agentPc[a] = "run"

C34_EveryItemSettled ==
    /\ \A i \in Items : (i \in enqueued) ~> (resolves[i] + rejects[i] = 1)
    /\ [](\A i \in Items : resolves[i] + rejects[i] <= 1)
    /\ []((queue # <<>> \/ current # 0) => (isProcessing /\ gatePc # "idle"))
    /\ [][\A i \in Items : Enqueue(i) =>
            (gatePc = "idle" \/ UNCHANGED <<gatePc, timer, current>>)]_vars

\* all items are settled and the loop has ended, after an item was retried
\* and an item was rejected
C34_Witness ==
    /\ enqueued = Items
    /\ \A i \in Items : resolves[i] + rejects[i] = 1
    /\ \E i \in Items : itemRetryCount[i] >= 1 /\ resolves[i] = 1
    /\ \E i \in Items : rejects[i] = 1
    /\ gatePc = "idle" /\ ~isProcessing

\* C35: a ToolCall record has the status executing only while its tool is
\* executing: a sub-agent's record while the execute of the call is in
\* flight, the orchestrator's while the step of the call has not finished.
C35_ExecutingOnlyWhileRunning ==
    /\ \A a \in AgentIds : \A i \in 1..Len(toolCalls[a]) :
          toolCalls[a][i].status = "executing"
             => toolCalls[a][i].id \in executing[a]
    /\ \A i \in 1..Len(toolCalls[OrchestratorId]) :
          toolCalls[OrchestratorId][i].status = "executing"
             => \E k \in 1..Len(stepCalls) :
                   stepCalls[k] = toolCalls[OrchestratorId][i].id

\* C36: while the session's status is completed or failed, every agent of
\* the session store, the agent 'orchestrator' included, has a terminal
\* status.
C36_TerminalSessionTerminalAgents ==
    sessionStatus \in Terminal
    => \A o \in Owners : StoreAgentStatus(o) \in Terminal \cup {"none"}

\* C37: once a sub-agent has been aborted, it calls runAgent no more and
\* enters no backoff wait.
C37_NoAttemptAfterAbort ==
    [][\A a \in AgentIds :
          aborted[a] =>
             /\ backoff'[a].runs = backoff[a].runs
             /\ agentPc'[a] = "backoff" => agentPc[a] = "backoff"]_vars

\* C38: write_report puts the results of every listed agent that has
\* completed into the writer's prompt, fetched before or not, and does not
\* return success when the error text stands in for the results of such an
\* agent.
C38_CompletedResultsPassed ==
    [][/\ \A ids \in ReportInputs :
             WriteReportFor(ids) =>
                \A a \in ids :
                   (status[a] = "completed" /\ statusFile[a] = "completed")
                      => report'.passed[a] = "results"
       /\ \A text \in ReportTexts :
             WriteReportSaved(text) =>
                \A a \in report.completed : report.passed[a] # "error"]_vars

\* C39: every provider call of a session is made with the keys that
\* session supplied when it was created.
C39_OwnKeys == \A c \in keys.used : c[3] = c[1]

\* C10: every path a tool has read or written lies below the session's
\* directory.
C10_PathsInsideSession ==
    LET IsDescendant(p, dir) ==
            LET ps == Split(p)
                ds == Split(dir)
            IN  Len(ps) > Len(ds) /\ SubSeq(ps, 1, Len(ds)) = ds
    IN  \A p \in accessed : IsDescendant(p, ResolvedSessionDir)

====
